---------------------------- MODULE Spec2Model ----------------------------
(***************************************************************************)
(* A model of the blocked factorization kernels of faer-rs and of the      *)
(* primitives they rest on.  Each kernel is a state machine of its own     *)
(* (its variables carry the kernel's prefix) with its own specification;   *)
(* the variables of the other kernels stay idle meanwhile.                 *)
(*                                                                         *)
(* Scalars.  The kernels are generic over a real or complex floating point *)
(* type.  The model keeps every branch the code takes on a scalar, and     *)
(* lets the scalars themselves range over a small set of integers (exact   *)
(* values a floating point type holds as well).  Where a value is the      *)
(* result of floating point arithmetic the model does not reproduce (the   *)
(* live diagonal of a Cholesky step, the diagonal a Jacobi sweep converged *)
(* to), it is an input of the step that reads it.                          *)
(***************************************************************************)
EXTENDS Integers, Sequences, FiniteSets, TLC

VARIABLES
    \* ---- plain Cholesky (faer-libs/faer-cholesky/src/llt/compute.rs)
    llt_n,        \* matrix.nrows() of the matrix given to cholesky_in_place
    llt_reg,      \* LltRegularization: [eps, delta] as given by the caller
    llt_par,      \* Parallelism given by the caller
    llt_pc,       \* "start" | "run" | "base" | "done"
    llt_stack,    \* pending work of cholesky_in_place_impl, innermost first
    llt_idx,      \* idx of the running cholesky_in_place_left_looking_impl
    llt_dyn,      \* its dynamic_regularization_count
    llt_count,    \* the out parameter `count` of cholesky_in_place_impl
    llt_result,   \* "none" | "Ok" | "Err": what cholesky_in_place returned
    llt_ret,      \* the usize inside Ok
    llt_hist,     \* history of the pivots met: [zero, neg, nan, clamped, blocks]
    \* ---- scratch of the hermitian eigendecomposition (faer-evd/src/lib.rs)
    evd_pc,       \* the next step of compute_hermitian_evd_custom_epsilon
    evd_n,        \* matrix.nrows()
    evd_E,        \* the scalar type E: "real" or "cplx"
    evd_u,        \* u.is_some(): eigenvectors are wanted
    evd_par,      \* Parallelism
    evd_len,      \* bytes of the buffer made from compute_hermitian_evd_req
    evd_ext,      \* what the functions outside these sources return on this run
    evd_off,      \* bytes of the buffer in use (the top of the stack)
    evd_fits,     \* every carve-out and callee requirement so far fitted
    \* ---- scratch of LDL^H (faer-cholesky/src/ldlt_diagonal/compute.rs)
    ldlt_pc,      \* "idle", "start", "run" or "done"
    ldlt_n,       \* the dimension raw_cholesky_in_place is called with
    ldlt_E,       \* the scalar type
    ldlt_len,     \* bytes of the buffer made from raw_cholesky_in_place_req
    ldlt_stack,   \* pending work of the recursion, innermost first
    ldlt_peak,    \* the highest top of the stack reached so far
    ldlt_temps,   \* the temporaries carved out so far
    ldlt_fits,    \* every temporary so far fitted the buffer
    \* ---- Bunch-Kaufman (faer-libs/faer-cholesky/src/bunch_kaufman/mod.rs)
    bk_pc,        \* the next step of cholesky_in_place
    bk_n,         \* matrix.nrows()
    bk_E,         \* the scalar type
    bk_blocksize, \* params.blocksize
    bk_len,       \* bytes of the buffer made from cholesky_in_place_req
    bk_off,       \* bytes of the buffer in use
    bk_fits,      \* every carve-out so far fitted the buffer
    bk_bs,        \* the panel width cholesky_in_place settled on
    bk_k,         \* rows factored so far (k of the outer loop)
    bk_sub,       \* k of the blocked step or of the unblocked loop
    bk_pivots,    \* the pivot array, indices from 0; !p is -p - 1
    bk_subdiag,   \* the magnitudes of the entries of subdiag
    bk_a21,       \* the magnitude of a[i + 1, i] where a 2x2 block starts at i
    bk_si,        \* the row the solve is at
    bk_sblocks,   \* the blocks <<first row, size>> the solve has been through
    bk_oob,       \* the solve read a row past the last one
    bk_perm,      \* perm, indices from 0
    bk_perm_inv,  \* perm_inv, indices from 0
    bk_blocked,   \* pivots chosen by the blocked step so far
    \* ---- decomposition handles (faer/src/linalg/solvers.rs)
    sol_pc,       \* "idle", "new" or "done"
    sol_kind,     \* the handle: "llt", "ldlt" or "bunch_kaufman"
    sol_n,        \* the dimension of the matrix
    sol_T,        \* the scalar type
    sol_sized_by, \* the factorization whose sizing function made the buffer
    sol_len,      \* bytes of the buffer
    sol_used,     \* bytes of scratch the factorization carves out
    \* ---- tridiagonal QR algorithm (faer-evd/src/tridiag_qr_algorithm.rs)
    qr_pc,        \* "idle", "start", "deflate", "sweep", "sort" or "done"
    qr_diag,      \* diag, binary64 floats, from index 1
    qr_offdiag,   \* offdiag, binary64 floats, from index 1
    qr_has_u,     \* u.is_some()
    qr_u,         \* the columns of u: which unit vector each started as
    qr_end,       \* end
    qr_start,     \* start
    qr_conv,      \* diag as the loop of lines 41-136 left it
    \* ---- Jacobi SVD (faer-svd/src/jacobi.rs)
    jac_pc,       \* the next step of jacobi_svd
    jac_skip,     \* skip: "None", "First" or "Last"
    jac_diag,     \* the diagonal of matrix, from index 1
    jac_has_u,    \* u.is_some()
    jac_u,        \* the columns of u: k is the unit vector e_k, -k is -e_k
    jac_has_v,    \* v.is_some()
    jac_v,        \* the columns of v, likewise; 0 is a column without a one
    jac_start,    \* start, the first row of the sorted range
    jac_new_n,    \* new_n, the length of the sorted range
    jac_i,        \* i of the sorting loop
    jac_nnz_count,\* nnz_count
    jac_ret,      \* the value returned
    jac_in,       \* the diagonal of matrix as it was given
    \* ---- singular value decomposition (faer-svd/src/lib.rs)
    svd_pc,       \* the next step of compute_svd
    svd_T,        \* the scalar type of the matrix
    svd_m,        \* matrix.nrows() as given
    svd_n,        \* matrix.ncols() as given
    svd_cu,       \* which U the caller asks for: "No", "Thin" or "Full"
    svd_cv,       \* which V the caller asks for
    svd_u,        \* the columns of the caller's U: k is e_k, -k is -e_k,
                  \* 0 is a zero column
    svd_v,        \* the columns of the caller's V, likewise
    svd_s,        \* the caller's s
    svd_t,        \* do_transpose
    svd_r,        \* r: its rows (small matrices), its diagonal (big ones)
    svd_q,        \* the orthogonal factor applied to u on the left
    svd_p,        \* the orthogonal factor applied to v on the left
    svd_ub,       \* the first n columns of u_b
    svd_vb,       \* the columns of v_b
    \* ---- join_raw (src/utils/thread.rs)
    join_pc,      \* "idle", "start", "run" or "done"
    join_par,     \* parallelism
    join_seq,     \* the tasks run one after the other on the calling thread
    join_handed,  \* the parallelism handed to op_a and op_b
    join_a,       \* op_a: its state, how often it ran, on which thread
    join_b,       \* op_b, likewise
    \* ---- Eigen::new (faer/src/linalg/solvers.rs)
    eig_pc,       \* "idle", "start", "imp", "conj" or "done"
    eig_stored,   \* the matrix in memory, A.canonical()
    eig_conj,     \* Conj::get::<C>(): the view is the conjugate of the memory
    eig_U,        \* U
    eig_S,        \* S, the diagonal
    \* ---- triangular solve (faer-core/src/solve.rs)
    tri_pc,       \* "idle", "start", "run" or "done"
    tri_par,      \* parallelism, as the caller gave it
    tri_stack,    \* the calls still to run, the next one first
    tri_last,     \* what the call that ran last did
    \* ---- block Householder sequences (faer-core/src/householder.rs)
    hh_pc,        \* "idle", "start", "loop" or "done"
    hh_transpose, \* the transposed sequence is applied
    hh_blocksize, \* householder_factor.nrows()
    hh_size,      \* householder_factor.ncols()
    hh_j,         \* j
    hh_bs,        \* bs
    hh_applied,   \* the blocks applied so far, each <<column offset, width>>
    hh_j_base,    \* j_base of the caller's loop over the factors
    hh_upgraded,  \* the blocks whose factor the caller made a block factor
    \* ---- matmul, the parallel fallback (faer/src/linalg/matmul/mod.rs)
    mm_pc,        \* "idle", "start", "run", "done" or "panic"
    mm_m,         \* dst.nrows()
    mm_n,         \* dst.ncols()
    mm_nthreads,  \* nthreads
    mm_checked,   \* the build checks integer overflow
    mm_ran,       \* the tids whose closure has run
    mm_writes,    \* how often each element of dst was written, by flat index
    mm_underflow, \* a task_count - task_idx went below zero
    mm_outside,   \* an index outside dst was formed
    \* ---- upgrade_householder_factor (faer-core/src/householder.rs)
    uhf_pc,       \* "idle", "start", "run" or "done"
    uhf_blocksize,\* blocksize
    uhf_prev,     \* prev_blocksize
    uhf_stack,    \* the calls still to run, the next one first
    uhf_last,     \* what the call that ran last did
    \* ---- the upper triangular solves (faer-core/src/solve.rs)
    ut_pc,        \* "idle", "start", "lower" or "done"
    ut_n,         \* triu.nrows()
    ut_unit,      \* the unit variant is called
    ut_conj,      \* conj_lhs is Conj::Yes
    ut_T,         \* triu as stored, a function of <<row, column>>
    ut_B,         \* the right-hand side the caller passed
    ut_X,         \* rhs as stored, one column
    ut_L,         \* the view of triu the lower solve is called with
    ut_xv,        \* the view of rhs the lower solve is called with
    \* ---- the eigenvectors of the real Schur form (faer-evd/src/lib.rs)
    schur_pc,     \* "idle", "start", "outer", "real", "pair", "done", "panic"
    schur_n,      \* n
    schur_sub,    \* schur_sub[i] is 0 when h[i, i - 1] is zero, for 1 <= i < n
    schur_k,      \* k of the outer loop
    schur_i,      \* i of the inner loop
    schur_cols,   \* the columns visited, each <<index, "alone" | "upper" | "lower">>
    schur_low,    \* the lowest index formed so far
    schur_read0,  \* h[i, i - 1] was read with i = 0
    \* ---- the entries of the eigendecompositions (faer-evd/src/lib.rs)
    entry_pc,     \* "idle", "start", "evaluated", "returned", "panic", "done"
    entry_fn,     \* "req", "hermitian" or "general": the function called
    entry_n,      \* n
    entry_checks, \* the build checks arithmetic for overflow
    entry_nm1,    \* the value n - 1 took; -1 is usize::MAX
    entry_wrapped \* n - 1 was evaluated with n = 0

llt_vars == <<llt_n, llt_reg, llt_par, llt_pc, llt_stack, llt_idx, llt_dyn,
              llt_count, llt_result, llt_ret, llt_hist>>

evd_vars == <<evd_pc, evd_n, evd_E, evd_u, evd_par, evd_len, evd_off, evd_fits,
              evd_ext>>

ldlt_vars == <<ldlt_pc, ldlt_n, ldlt_E, ldlt_len, ldlt_stack, ldlt_peak,
               ldlt_temps, ldlt_fits>>

bk_vars == <<bk_pc, bk_n, bk_E, bk_blocksize, bk_len, bk_off, bk_fits, bk_bs,
             bk_k, bk_sub, bk_pivots, bk_subdiag, bk_perm, bk_perm_inv,
             bk_blocked,
            bk_a21, bk_si, bk_sblocks, bk_oob>>

sol_vars == <<sol_pc, sol_kind, sol_n, sol_T, sol_sized_by, sol_len, sol_used>>

qr_vars == <<qr_pc, qr_diag, qr_offdiag, qr_has_u, qr_u, qr_end, qr_start,
             qr_conv>>

jac_vars == <<jac_pc, jac_skip, jac_diag, jac_has_u, jac_u, jac_has_v, jac_v,
              jac_start, jac_new_n, jac_i, jac_nnz_count, jac_ret, jac_in>>

svd_vars == <<svd_pc, svd_T, svd_m, svd_n, svd_cu, svd_cv, svd_u, svd_v, svd_s,
              svd_t, svd_r, svd_q, svd_p, svd_ub, svd_vb>>

join_vars == <<join_pc, join_par, join_seq, join_handed, join_a, join_b>>

eig_vars == <<eig_pc, eig_stored, eig_conj, eig_U, eig_S>>

tri_vars == <<tri_pc, tri_par, tri_stack, tri_last>>

hh_vars == <<hh_pc, hh_transpose, hh_blocksize, hh_size, hh_j, hh_bs,
             hh_applied, hh_j_base, hh_upgraded>>

mm_vars == <<mm_pc, mm_m, mm_n, mm_nthreads, mm_checked, mm_ran, mm_writes,
             mm_underflow, mm_outside>>

uhf_vars == <<uhf_pc, uhf_blocksize, uhf_prev, uhf_stack, uhf_last>>

ut_vars == <<ut_pc, ut_n, ut_unit, ut_conj, ut_T, ut_B, ut_X, ut_L, ut_xv>>

entry_vars == <<entry_pc, entry_fn, entry_n, entry_checks, entry_nm1,
                entry_wrapped>>

schur_vars == <<schur_pc, schur_n, schur_sub, schur_k, schur_i, schur_cols,
                schur_low, schur_read0>>

vars == <<llt_vars, evd_vars, ldlt_vars, bk_vars, sol_vars, qr_vars, jac_vars,
          svd_vars, join_vars, eig_vars, tri_vars, hh_vars, mm_vars, uhf_vars,
          ut_vars, schur_vars, entry_vars>>

-----------------------------------------------------------------------------
(* Shared helpers *)

Min(a, b) == IF a < b THEN a ELSE b
Max(a, b) == IF a > b THEN a ELSE b
Abs(x) == IF x < 0 THEN -x ELSE x

\* A float that is NaN, told apart from every value a run computes; every
\* comparison with it is false.
NaN == -1000000000
\* x < y on floats
float_lt(x, y) == x # NaN /\ y # NaN /\ x < y
float_le(x, y) == x # NaN /\ y # NaN /\ x <= y

\* Parallelism: None, or Rayon(n) (n = 0: the ambient worker count).
ParNone == [kind |-> "None", n |-> 0]
Rayon(k) == [kind |-> "Rayon", n |-> k]

\* rayon::current_num_threads() of the model's runs.
AmbientThreads == 4

parallelism_degree(par) ==
    IF par.kind = "None" THEN 1
    ELSE IF par.n = 0 THEN AmbientThreads
    ELSE par.n

-----------------------------------------------------------------------------
(* The scratch protocol: StackReq, the stack allocator, temp_mat_req *)

\* Bytes of a real scalar (f64) and of an index (usize).
SizeOfReal == 8
\* aligned_vec::CACHELINE_ALIGN: what a vectorizable temporary matrix aligns to.
CacheLineAlign == 128

\* The element types: "real" is f64, "cplx" is Complex<f64>, "usize" an index.
SizeOf(T) == IF T = "cplx" THEN 2 * SizeOfReal ELSE SizeOfReal
AlignOf(T) == SizeOfReal
is_vectorizable(T) == T \in {"real", "cplx"}
align_for(T) == IF is_vectorizable(T) THEN CacheLineAlign ELSE AlignOf(T)

round_up(n, k) == ((n + k - 1) \div k) * k

\* dyn_stack::StackReq
StackReq_empty == [size |-> 0, align |-> 1]
StackReq_new_aligned(T, n, align) == [size |-> n * SizeOf(T), align |-> align]
StackReq_new(T, n) == StackReq_new_aligned(T, n, AlignOf(T))
StackReq_and(a, b) ==
    LET align == Max(a.align, b.align) IN
    [size |-> round_up(a.size, align) + round_up(b.size, align), align |-> align]
StackReq_or(a, b) ==
    LET align == Max(a.align, b.align) IN
    [size |-> Max(round_up(a.size, align), round_up(b.size, align)),
     align |-> align]
RECURSIVE StackReq_all_of(_)
StackReq_all_of(reqs) ==
    IF reqs = << >> THEN StackReq_empty
    ELSE StackReq_and(StackReq_all_of(SubSeq(reqs, 1, Len(reqs) - 1)),
                      reqs[Len(reqs)])
RECURSIVE StackReq_any_of(_)
StackReq_any_of(reqs) ==
    IF reqs = << >> THEN StackReq_empty
    ELSE StackReq_or(StackReq_any_of(SubSeq(reqs, 1, Len(reqs) - 1)),
                     reqs[Len(reqs)])

\* faer_core: the column stride of a temporary matrix, and temp_mat_req.
col_stride(T, nrows) ==
    IF is_vectorizable(T) THEN round_up(nrows, align_for(T) \div SizeOf(T))
    ELSE nrows
temp_mat_req(T, nrows, ncols) ==
    StackReq_new_aligned(T, ncols * col_stride(T, nrows), align_for(T))

\* The stack allocator: the top of the stack after an allocation of `size`
\* bytes aligned to `align`, from a buffer whose base is aligned.
stack_alloc(off, size, align) == round_up(off, align) + size
\* DynStack::make_with / make_raw of n values of type T.
stack_make(off, T, n) == stack_alloc(off, n * SizeOf(T), AlignOf(T))
\* faer_core::temp_mat_uninit
stack_temp_mat(off, T, nrows, ncols) ==
    stack_alloc(off, ncols * col_stride(T, nrows) * SizeOf(T), align_for(T))
\* The top of the stack a callee may reach when it is handed the stack at `off`
\* and uses what its sizing function reports.
stack_callee(off, req) == stack_alloc(off, req.size, req.align)

\* The kernels are separate entry points: while one runs, the state of the
\* others stays as constructed.
LltIdle ==
    /\ llt_n = 0 /\ llt_reg = [eps |-> 0, delta |-> 0] /\ llt_par = ParNone
    /\ llt_pc = "idle" /\ llt_stack = << >> /\ llt_idx = 0 /\ llt_dyn = 0
    /\ llt_count = 0 /\ llt_result = "none" /\ llt_ret = 0
    /\ llt_hist = [zero |-> FALSE, neg |-> FALSE, nan |-> FALSE, clamped |-> 0,
                   blocks |-> 0, last |-> -1]
EvdIdle ==
    /\ evd_pc = "idle" /\ evd_n = 0 /\ evd_E = "real" /\ evd_u = FALSE
    /\ evd_par = ParNone /\ evd_len = 0 /\ evd_off = 0 /\ evd_fits = TRUE
    /\ evd_ext = [blocksize_n |-> 1, blocksize_nm1 |-> 1,
                   tridiagonalize |-> StackReq_empty,
                   tridiag_evd |-> StackReq_empty,
                   tridiag_evd_real |-> StackReq_empty]
LdltIdle ==
    /\ ldlt_pc = "idle" /\ ldlt_n = 0 /\ ldlt_E = "real" /\ ldlt_len = 0
    /\ ldlt_stack = << >> /\ ldlt_peak = 0 /\ ldlt_temps = 0
    /\ ldlt_fits = TRUE
BkIdle ==
    /\ bk_pc = "idle" /\ bk_n = 0 /\ bk_E = "real" /\ bk_blocksize = 0
    /\ bk_len = 0 /\ bk_off = 0 /\ bk_fits = TRUE /\ bk_bs = 0 /\ bk_k = 0
    /\ bk_sub = 0 /\ bk_pivots = << >> /\ bk_subdiag = << >>
    /\ bk_perm = << >> /\ bk_perm_inv = << >> /\ bk_blocked = 0
    /\ bk_a21 = << >> /\ bk_si = 0 /\ bk_sblocks = << >> /\ bk_oob = FALSE
SolIdle ==
    /\ sol_pc = "idle" /\ sol_kind = "llt" /\ sol_n = 0 /\ sol_T = "real"
    /\ sol_sized_by = "none" /\ sol_len = 0 /\ sol_used = 0
QrIdle ==
    /\ qr_pc = "idle" /\ qr_diag = << >> /\ qr_offdiag = << >>
    /\ qr_has_u = FALSE /\ qr_u = << >> /\ qr_end = 0 /\ qr_start = 0
    /\ qr_conv = << >>
JacIdle ==
    /\ jac_pc = "idle" /\ jac_skip = "None" /\ jac_diag = << >>
    /\ jac_has_u = FALSE /\ jac_u = << >> /\ jac_has_v = FALSE
    /\ jac_v = << >> /\ jac_start = 0
    /\ jac_new_n = 0 /\ jac_i = 0 /\ jac_nnz_count = 0 /\ jac_ret = 0
    /\ jac_in = << >>
SvdIdle ==
    /\ svd_pc = "idle" /\ svd_T = "real" /\ svd_m = 0 /\ svd_n = 0
    /\ svd_cu = "No" /\ svd_cv = "No" /\ svd_u = << >> /\ svd_v = << >>
    /\ svd_s = << >> /\ svd_t = FALSE /\ svd_r = << >> /\ svd_q = << >>
    /\ svd_p = << >> /\ svd_ub = << >> /\ svd_vb = << >>
JoinTask0 == [state |-> "pending", runs |-> 0, thread |-> "none"]
JoinIdle ==
    /\ join_pc = "idle" /\ join_par = ParNone /\ join_seq = TRUE
    /\ join_handed = ParNone /\ join_a = JoinTask0 /\ join_b = JoinTask0
EigIdle ==
    /\ eig_pc = "idle" /\ eig_stored = << >> /\ eig_conj = FALSE
    /\ eig_U = << >> /\ eig_S = << >>
TriNothing == [kind |-> "none"]
TriIdle ==
    /\ tri_pc = "idle" /\ tri_par = ParNone /\ tri_stack = << >>
    /\ tri_last = TriNothing
HhIdle ==
    /\ hh_pc = "idle" /\ hh_transpose = FALSE /\ hh_blocksize = 1
    /\ hh_size = 0 /\ hh_j = 0 /\ hh_bs = 0 /\ hh_applied = << >>
    /\ hh_j_base = 0 /\ hh_upgraded = << >>
MmIdle ==
    /\ mm_pc = "idle" /\ mm_m = 0 /\ mm_n = 0 /\ mm_nthreads = 1
    /\ mm_checked = FALSE /\ mm_ran = {} /\ mm_writes = << >>
    /\ mm_underflow = FALSE /\ mm_outside = FALSE
UhfIdle ==
    /\ uhf_pc = "idle" /\ uhf_blocksize = 1 /\ uhf_prev = 1
    /\ uhf_stack = << >> /\ uhf_last = [kind |-> "none"]
UtIdle ==
    /\ ut_pc = "idle" /\ ut_n = 0 /\ ut_unit = FALSE /\ ut_conj = FALSE
    /\ ut_T = << >> /\ ut_B = << >> /\ ut_X = << >> /\ ut_L = << >>
    /\ ut_xv = << >>
SchurIdle ==
    /\ schur_pc = "idle" /\ schur_n = 0 /\ schur_sub = << >> /\ schur_k = 0
    /\ schur_i = 0 /\ schur_cols = << >> /\ schur_low = 0
    /\ schur_read0 = FALSE
EntryIdle ==
    /\ entry_pc = "idle" /\ entry_fn = "none" /\ entry_n = 0
    /\ entry_checks = FALSE /\ entry_nm1 = 0 /\ entry_wrapped = FALSE

\* Every kernel but m is idle; a step of kernel m leaves the others alone.
IdleBut(m) ==
    /\ IF m = "llt" THEN TRUE ELSE LltIdle
    /\ IF m = "evd" THEN TRUE ELSE EvdIdle
    /\ IF m = "ldlt" THEN TRUE ELSE LdltIdle
    /\ IF m = "bk" THEN TRUE ELSE BkIdle
    /\ IF m = "sol" THEN TRUE ELSE SolIdle
    /\ IF m = "qr" THEN TRUE ELSE QrIdle
    /\ IF m = "jac" THEN TRUE ELSE JacIdle
    /\ IF m = "svd" THEN TRUE ELSE SvdIdle
    /\ IF m = "join" THEN TRUE ELSE JoinIdle
    /\ IF m = "eig" THEN TRUE ELSE EigIdle
    /\ IF m = "tri" THEN TRUE ELSE TriIdle
    /\ IF m = "hh" THEN TRUE ELSE HhIdle
    /\ IF m = "mm" THEN TRUE ELSE MmIdle
    /\ IF m = "uhf" THEN TRUE ELSE UhfIdle
    /\ IF m = "ut" THEN TRUE ELSE UtIdle
    /\ IF m = "schur" THEN TRUE ELSE SchurIdle
    /\ IF m = "entry" THEN TRUE ELSE EntryIdle
Others(m) ==
    /\ IF m = "llt" THEN TRUE ELSE UNCHANGED llt_vars
    /\ IF m = "evd" THEN TRUE ELSE UNCHANGED evd_vars
    /\ IF m = "ldlt" THEN TRUE ELSE UNCHANGED ldlt_vars
    /\ IF m = "bk" THEN TRUE ELSE UNCHANGED bk_vars
    /\ IF m = "sol" THEN TRUE ELSE UNCHANGED sol_vars
    /\ IF m = "qr" THEN TRUE ELSE UNCHANGED qr_vars
    /\ IF m = "jac" THEN TRUE ELSE UNCHANGED jac_vars
    /\ IF m = "svd" THEN TRUE ELSE UNCHANGED svd_vars
    /\ IF m = "join" THEN TRUE ELSE UNCHANGED join_vars
    /\ IF m = "eig" THEN TRUE ELSE UNCHANGED eig_vars
    /\ IF m = "tri" THEN TRUE ELSE UNCHANGED tri_vars
    /\ IF m = "hh" THEN TRUE ELSE UNCHANGED hh_vars
    /\ IF m = "mm" THEN TRUE ELSE UNCHANGED mm_vars
    /\ IF m = "uhf" THEN TRUE ELSE UNCHANGED uhf_vars
    /\ IF m = "ut" THEN TRUE ELSE UNCHANGED ut_vars
    /\ IF m = "schur" THEN TRUE ELSE UNCHANGED schur_vars
    /\ IF m = "entry" THEN TRUE ELSE UNCHANGED entry_vars

-----------------------------------------------------------------------------
(* Plain Cholesky, A = L L^H *)

\* Largest matrix dimension of a run.
LltMaxDim == 64
\* The live diagonal values are NaN or range over -1 .. LltMaxPivot.
LltMaxPivot == 2
LltPivotVals == {NaN} \cup ((-1) .. LltMaxPivot)
\* Regularization parameters the caller may give (the code takes their abs).
LltRegVals == { [eps |-> 0, delta |-> 0], [eps |-> 0, delta |-> 2],
                [eps |-> 1, delta |-> 2], [eps |-> -1, delta |-> -2] }
LltParVals == {ParNone}

\* n < 32: the unblocked base case (line 176).
LltBlockThreshold == 32
\* block_size = min(n / 2, 128 * parallelism_degree) (line 180).
LltBlockCap == 128

llt_eps == Abs(llt_reg.eps)
llt_delta == Abs(llt_reg.delta)
llt_has_eps == llt_delta > 0

llt_block_size(n, par) == Min(n \div 2, LltBlockCap * parallelism_degree(par))

\* Lines 79-83: the pivot after dynamic regularization, and whether it was
\* clamped.
llt_regularizes(real) ==
    llt_has_eps /\ float_le(0, real) /\ float_le(real, llt_eps)
llt_pivot(real) == IF llt_regularizes(real) THEN llt_delta ELSE real

\* (mutant) The pivot test lets a zero through.
llt_is_positive_weak(real) == float_le(0, real)

\* Line 85: the test that lets the square root be taken.
llt_is_positive(real) == float_lt(0, real)

\* (mutant) The count of a block overwrites the out parameter.
llt_accumulate_overwrite(count, ret) == ret

\* `*count += ret` of line 177.
llt_accumulate(count, ret) == count + ret

LltFrame(op, off, n) == [op |-> op, off |-> off, n |-> n]

\* What the run has met so far: a live diagonal value that was exactly zero, one
\* that was negative, one that was NaN, the number of live values in [0, eps]
\* met while delta > 0, the number of base case blocks that returned Ok, and
\* the row of the last pivot.
LltHist0 == [zero |-> FALSE, neg |-> FALSE, nan |-> FALSE, clamped |-> 0,
             blocks |-> 0, last |-> -1]

LltOnly == Others("llt")

LltInit ==
    /\ llt_n \in 0 .. LltMaxDim
    /\ llt_reg \in LltRegVals
    /\ llt_par \in LltParVals
    /\ llt_pc = "start"
    /\ llt_stack = << >>
    /\ llt_idx = 0
    /\ llt_dyn = 0
    /\ llt_count = 0
    /\ llt_result = "none"
    /\ llt_ret = 0
    /\ llt_hist = LltHist0
    /\ IdleBut("llt")

\* cholesky_in_place, lines 254-262: count = 0, call cholesky_in_place_impl.
llt_cholesky_in_place ==
    /\ llt_pc = "start"
    /\ llt_pc' = "run"
    /\ llt_count' = 0
    /\ llt_stack' = << LltFrame("impl", 0, llt_n) >>
    /\ UNCHANGED <<llt_n, llt_reg, llt_par, llt_idx, llt_dyn, llt_result,
                   llt_ret, llt_hist>>
    /\ LltOnly

\* cholesky_in_place_impl on a block with n >= 32, lines 180-212: the
\* recursive call on l00, then the solve and the matmul, then the tail call
\* on a11.
llt_impl_split ==
    /\ llt_pc = "run"
    /\ llt_stack # << >>
    /\ LET f == Head(llt_stack) IN
        /\ f.op = "impl"
        /\ f.n >= LltBlockThreshold
        /\ LET bs == llt_block_size(f.n, llt_par) IN
            llt_stack' = << LltFrame("impl", f.off, bs),
                            LltFrame("update", f.off, bs),
                            LltFrame("impl", f.off + bs, f.n - bs) >>
                          \o Tail(llt_stack)
    /\ UNCHANGED <<llt_n, llt_reg, llt_par, llt_pc, llt_idx, llt_dyn,
                   llt_count, llt_result, llt_ret, llt_hist>>
    /\ LltOnly

\* solve_lower_triangular_in_place and triangular::matmul, lines 194-210.
llt_impl_update ==
    /\ llt_pc = "run"
    /\ llt_stack # << >>
    /\ Head(llt_stack).op = "update"
    /\ llt_stack' = Tail(llt_stack)
    /\ UNCHANGED <<llt_n, llt_reg, llt_par, llt_pc, llt_idx, llt_dyn,
                   llt_count, llt_result, llt_ret, llt_hist>>
    /\ LltOnly

\* cholesky_in_place_impl on a block with n < 32, line 177, entering
\* cholesky_in_place_left_looking_impl (lines 23-40); n = 0 returns Ok(0).
llt_impl_base ==
    /\ llt_pc = "run"
    /\ llt_stack # << >>
    /\ LET f == Head(llt_stack) IN
        /\ f.op = "impl"
        /\ f.n < LltBlockThreshold
        /\ IF f.n = 0
           THEN /\ llt_count' = llt_accumulate(llt_count, 0)
                /\ llt_stack' = Tail(llt_stack)
                /\ llt_hist' = [llt_hist EXCEPT !.blocks = @ + 1]
                /\ UNCHANGED <<llt_pc, llt_idx, llt_dyn>>
           ELSE /\ llt_pc' = "base"
                /\ llt_idx' = 0
                /\ llt_dyn' = 0
                /\ UNCHANGED <<llt_count, llt_stack, llt_hist>>
    /\ UNCHANGED <<llt_n, llt_reg, llt_par, llt_result, llt_ret>>
    /\ LltOnly

\* One iteration of the loop of cholesky_in_place_left_looking_impl, lines
\* 41-124, on the live diagonal value `real` (a11 after line 73).
llt_left_looking_step(real) ==
    /\ llt_pc = "base"
    /\ LET f == Head(llt_stack)
           piv == llt_pivot(real)
           dyn == IF llt_regularizes(real) THEN llt_dyn + 1 ELSE llt_dyn
           hist == [llt_hist EXCEPT
                      !.zero = @ \/ real = 0,
                      !.neg = @ \/ float_lt(real, 0),
                      !.nan = @ \/ real = NaN,
                      !.clamped = IF llt_delta > 0 /\ real \in 0 .. llt_eps
                                  THEN @ + 1 ELSE @,
                      !.last = f.off + llt_idx]
       IN
        IF ~llt_is_positive(piv)
        THEN \* line 88, and the `?` of lines 177, 190, 212 and 262
             /\ llt_result' = "Err"
             /\ llt_pc' = "done"
             /\ llt_stack' = << >>
             /\ llt_hist' = hist
             /\ UNCHANGED <<llt_idx, llt_count, llt_ret>>
             /\ llt_dyn' = dyn
        ELSE IF llt_idx + 1 = f.n
        THEN \* line 92 and line 125, then line 177
             /\ llt_count' = llt_accumulate(llt_count, dyn)
             /\ llt_dyn' = dyn
             /\ llt_stack' = Tail(llt_stack)
             /\ llt_pc' = "run"
             /\ llt_hist' = [hist EXCEPT !.blocks = @ + 1]
             /\ UNCHANGED <<llt_idx, llt_result, llt_ret>>
        ELSE /\ llt_idx' = llt_idx + 1
             /\ llt_dyn' = dyn
             /\ llt_hist' = hist
             /\ UNCHANGED <<llt_pc, llt_stack, llt_count, llt_result, llt_ret>>
    /\ UNCHANGED <<llt_n, llt_reg, llt_par>>
    /\ LltOnly

\* cholesky_in_place, line 263: Ok(count).
llt_return ==
    /\ llt_pc = "run"
    /\ llt_stack = << >>
    /\ llt_pc' = "done"
    /\ llt_result' = "Ok"
    /\ llt_ret' = llt_count
    /\ UNCHANGED <<llt_n, llt_reg, llt_par, llt_stack, llt_idx, llt_dyn,
                   llt_count, llt_hist>>
    /\ LltOnly

LltNext ==
    \/ llt_cholesky_in_place
    \/ llt_impl_split
    \/ llt_impl_update
    \/ llt_impl_base
    \/ \E real \in LltPivotVals : llt_left_looking_step(real)
    \/ llt_return

SpecLlt == LltInit /\ [][LltNext]_vars


LltDone == llt_pc = "done"

\* C1: with delta > 0, whenever some live pivot was exactly zero or negative,
\* cholesky_in_place returns Ok with a count of at least 1.
C1_AsStated ==
    (LltDone /\ llt_reg.delta > 0 /\ (llt_hist.zero \/ llt_hist.neg))
        => (llt_result = "Ok" /\ llt_ret >= 1)

\* What lines 80-88 do with delta > 0: the call returns Err exactly when it
\* met a live pivot that was negative or NaN (neither is clamped), and when it
\* met a live pivot of exactly zero and none of those, it returns Ok with a
\* count of at least 1.
LltClampsFromZeroUp ==
    (LltDone /\ llt_reg.delta > 0) =>
        /\ (llt_result = "Err") <=> (llt_hist.neg \/ llt_hist.nan)
        /\ (llt_hist.zero /\ ~llt_hist.neg /\ ~llt_hist.nan)
               => (llt_result = "Ok" /\ llt_ret >= 1)

\* A blocked run with delta > 0 that met a zero pivot in its trailing block and
\* returned Ok.
LltClampedZero ==
    /\ LltDone /\ llt_reg.delta > 0 /\ llt_n >= LltBlockThreshold
    /\ llt_hist.zero /\ llt_result = "Ok" /\ llt_ret = 1

\* C2: with delta = 0, as soon as a live pivot is zero, negative or NaN (none
\* passes the test of line 85), in whichever block of the recursion, the call
\* has returned Err (and a call that met none returns Ok): the failure is a
\* returned value, every run ends in Ok or Err.
C2_NonPositivePivotIsErr ==
    llt_reg.delta = 0 =>
        /\ (llt_hist.zero \/ llt_hist.neg \/ llt_hist.nan)
               => (LltDone /\ llt_result = "Err")
        /\ LltDone => llt_result \in {"Ok", "Err"}
        /\ (LltDone /\ ~(llt_hist.zero \/ llt_hist.neg \/ llt_hist.nan))
               => llt_result = "Ok"

\* A run above the blocking threshold that failed on a zero pivot in the
\* trailing block of the trailing block.
C2_Witness ==
    /\ LltDone /\ llt_reg.delta = 0 /\ llt_result = "Err" /\ llt_hist.zero
    /\ llt_n = 2 * LltBlockThreshold
    /\ llt_hist.last >= llt_n - (LltBlockThreshold \div 2)

\* C9: on success the returned count is the number of live pivots that lay in
\* [0, eps] while delta > 0, over all base case blocks of the recursion.
C9_CountIsClampedPivots ==
    (LltDone /\ llt_result = "Ok") => llt_ret = llt_hist.clamped

\* A successful run over four base case blocks that clamped in several of them.
C9_Witness ==
    /\ LltDone /\ llt_result = "Ok" /\ llt_hist.blocks = 4
    /\ llt_ret = llt_n /\ llt_n > 0

-----------------------------------------------------------------------------
(* Scratch of the hermitian eigendecomposition *)

EvdMaxDim == 40
EvdScalars == {"real", "cplx"}
EvdParVals == {ParNone, Rayon(2)}

\* recommended_blocksize, tridiagonalize_in_place_req and
\* compute_tridiag_real_evd_req are called at lines 73, 88, 92 and 170 and
\* defined outside these sources. A run fixes what they return: a blocksize
\* of 1 or of EvdMaxBlocksize, and a requirement that is empty or holds
\* EvdMaxCallee cache lines.
EvdMaxBlocksize == 32
EvdMaxCallee == 8
EvdBlocksizes == {1, EvdMaxBlocksize}
EvdCalleeReqs ==
    {StackReq_empty,
     StackReq_new_aligned("real", (EvdMaxCallee * CacheLineAlign) \div SizeOfReal,
                          CacheLineAlign)}
\* blocksize_n: recommended_blocksize::<E>(n, n), line 73
\* blocksize_nm1: recommended_blocksize::<E>(n - 1, n - 1), line 170
\* tridiagonalize: tridiagonalize_in_place_req::<E>(n, parallelism), line 88
\* tridiag_evd: compute_tridiag_real_evd_req::<E>(n, parallelism), line 92
\* tridiag_evd_real: the same for E::Real, the scalar of the calls of lines
\*     232 and 265; for a real E it is the same call as tridiag_evd
EvdExtVals(E) ==
    {x \in [blocksize_n : EvdBlocksizes, blocksize_nm1 : EvdBlocksizes,
            tridiagonalize : EvdCalleeReqs, tridiag_evd : EvdCalleeReqs,
            tridiag_evd_real : EvdCalleeReqs] :
        E = "real" => x.tridiag_evd = x.tridiag_evd_real}

\* householder.rs, lines 283-290
apply_block_householder_sequence_on_the_left_in_place_req(E, nrows, blocksize, rhs_ncols) ==
    temp_mat_req(E, blocksize, rhs_ncols)

\* compute_hermitian_evd_req, lines 75-82
evd_cplx_storage(E, n) ==
    IF E = "real" THEN StackReq_empty
    ELSE StackReq_all_of(<<temp_mat_req("real", n, n), StackReq_new("real", n)>>)

\* compute_hermitian_evd_req, lines 65-102, given what lines 73, 88 and 92
\* get from recommended_blocksize, tridiagonalize_in_place_req and
\* compute_tridiag_real_evd_req
compute_hermitian_evd_req(E, n, householder_blocksize, tridiagonalize_req, tridiag_real_evd_req) ==
    StackReq_all_of(<<
        temp_mat_req(E, n, n),
        temp_mat_req(E, householder_blocksize, n - 1),
        StackReq_any_of(<<
            tridiagonalize_req,
            StackReq_all_of(<<StackReq_new("real", n),
                              StackReq_new("real", n - 1),
                              tridiag_real_evd_req,
                              evd_cplx_storage(E, n)>>),
            apply_block_householder_sequence_on_the_left_in_place_req(
                E, n - 1, householder_blocksize, n)>>)>>)

\* compute_hermitian_evd_custom_epsilon, lines 169-170
evd_householder_blocksize == evd_ext.blocksize_nm1

\* The top of the stack once trid and householder are carved out (lines
\* 168-173): where every later scope of the function starts.
evd_base ==
    stack_temp_mat(stack_temp_mat(0, evd_E, evd_n, evd_n),
                   evd_E, evd_householder_blocksize, evd_n - 1)

EvdInit ==
    /\ evd_pc = "start"
    /\ evd_n \in 1 .. EvdMaxDim
    /\ evd_E \in EvdScalars
    /\ evd_u \in BOOLEAN
    /\ evd_par \in EvdParVals
    /\ evd_ext \in EvdExtVals(evd_E)
    /\ evd_len = 0
    /\ evd_off = 0
    /\ evd_fits = TRUE
    /\ IdleBut("evd")

EvdOnly == Others("evd")

\* An allocation or a callee's use of the stack that reaches `top`.
evd_reach(top) == evd_fits' = (evd_fits /\ top <= evd_len)

\* The caller makes the buffer with the sizing function (the protocol of
\* compute_hermitian_evd_req, lines 63-102).
evd_make_buffer ==
    /\ evd_pc = "start"
    /\ evd_len' = compute_hermitian_evd_req(
                       evd_E, evd_n, evd_ext.blocksize_n,
                       evd_ext.tridiagonalize, evd_ext.tridiag_evd).size
    /\ evd_pc' = "trid"
    /\ UNCHANGED <<evd_ext, evd_n, evd_E, evd_u, evd_par, evd_off, evd_fits>>
    /\ EvdOnly

\* line 168: trid = temp_mat_uninit::<E>(n, n)
evd_alloc_trid ==
    /\ evd_pc = "trid"
    /\ evd_off' = stack_temp_mat(evd_off, evd_E, evd_n, evd_n)
    /\ evd_reach(evd_off')
    /\ evd_pc' = "householder"
    /\ UNCHANGED <<evd_ext, evd_n, evd_E, evd_u, evd_par, evd_len>>
    /\ EvdOnly

\* lines 169-173: householder = temp_mat_uninit::<E>(blocksize, n - 1)
evd_alloc_householder ==
    /\ evd_pc = "householder"
    /\ evd_off' = stack_temp_mat(evd_off, evd_E, evd_householder_blocksize,
                                 evd_n - 1)
    /\ evd_reach(evd_off')
    /\ evd_pc' = "tridiagonalize"
    /\ UNCHANGED <<evd_ext, evd_n, evd_E, evd_u, evd_par, evd_len>>
    /\ EvdOnly

\* lines 183-188: tridiagonalize_in_place(.., stack.rb_mut())
evd_tridiagonalize ==
    /\ evd_pc = "tridiagonalize"
    /\ evd_reach(stack_callee(evd_off, evd_ext.tridiagonalize))
    /\ evd_pc' = "diag"
    /\ UNCHANGED <<evd_ext, evd_n, evd_E, evd_u, evd_par, evd_len, evd_off>>
    /\ EvdOnly

\* lines 196 and 227: diag = make_with(n)
evd_alloc_diag ==
    /\ evd_pc = "diag"
    /\ evd_off' = stack_make(evd_off, "real", evd_n)
    /\ evd_reach(evd_off')
    /\ evd_pc' = "offdiag"
    /\ UNCHANGED <<evd_ext, evd_n, evd_E, evd_u, evd_par, evd_len>>
    /\ EvdOnly

\* lines 197, 230 and 242: offdiag = make_with(n - 1)
evd_alloc_offdiag ==
    /\ evd_pc = "offdiag"
    /\ evd_off' = stack_make(evd_off, "real", evd_n - 1)
    /\ evd_reach(evd_off')
    /\ evd_pc' = IF ~evd_u THEN "qr_algorithm"
                 ELSE IF evd_E = "real" THEN "tridiag_real_evd"
                 ELSE "u_real"
    /\ UNCHANGED <<evd_ext, evd_n, evd_E, evd_u, evd_par, evd_len>>
    /\ EvdOnly

\* lines 198-209: eigenvalues only; the QR algorithm takes no scratch.
evd_qr_algorithm ==
    /\ evd_pc = "qr_algorithm"
    /\ evd_off' = 0
    /\ evd_pc' = "done"
    /\ UNCHANGED <<evd_ext, evd_n, evd_E, evd_u, evd_par, evd_len, evd_fits>>
    /\ EvdOnly

\* line 244: u_real = temp_mat_uninit::<E::Real>(n, n)
evd_alloc_u_real ==
    /\ evd_pc = "u_real"
    /\ evd_off' = stack_temp_mat(evd_off, "real", evd_n, evd_n)
    /\ evd_reach(evd_off')
    /\ evd_pc' = "mul"
    /\ UNCHANGED <<evd_ext, evd_n, evd_E, evd_u, evd_par, evd_len>>
    /\ EvdOnly

\* line 245: mul = make_with(n, |_| E::zero())
evd_alloc_mul ==
    /\ evd_pc = "mul"
    /\ evd_off' = stack_make(evd_off, evd_E, evd_n)
    /\ evd_reach(evd_off')
    /\ evd_pc' = "tridiag_real_evd"
    /\ UNCHANGED <<evd_ext, evd_n, evd_E, evd_u, evd_par, evd_len>>
    /\ EvdOnly

\* lines 232-240 and 265-273: compute_tridiag_real_evd::<E::Real>(.., stack);
\* the scope of diag ends at line 287.
evd_tridiag_real_evd ==
    /\ evd_pc = "tridiag_real_evd"
    /\ evd_reach(stack_callee(evd_off, evd_ext.tridiag_evd_real))
    /\ evd_off' = evd_base
    /\ evd_pc' = "apply_householder"
    /\ UNCHANGED <<evd_ext, evd_n, evd_E, evd_u, evd_par, evd_len>>
    /\ EvdOnly

\* householder.rs, lines 496-538 and 314-336: the sequence walks the `size`
\* columns of the factor block by block from column j down, the first block
\* holding size % blocksize columns when that is not zero, and each block
\* carves a bs by k temporary out of the stack it is handed at `off`; the
\* highest top reached, 0 when there is no block.
RECURSIVE evd_apply_walk(_, _, _, _, _, _, _)
evd_apply_walk(off, E, j, bs, blocksize, k, top) ==
    IF j = 0 THEN top
    ELSE evd_apply_walk(off, E, j - bs, blocksize, blocksize, k,
                        Max(top, stack_temp_mat(off, E, bs, k)))
evd_apply_top(off, E, size, blocksize, k) ==
    evd_apply_walk(off, E, size,
                   IF size % blocksize = 0 THEN blocksize ELSE size % blocksize,
                   blocksize, k, 0)

\* lines 294-301: the block Householder sequence, whose factor is the
\* blocksize by n - 1 matrix of line 172, is applied to the n - 1 bottom rows
\* of u (n columns), with stack.rb_mut().
evd_apply_householder ==
    /\ evd_pc = "apply_householder"
    /\ evd_reach(evd_apply_top(evd_off, evd_E, evd_n - 1,
                               evd_householder_blocksize, evd_n))
    /\ evd_off' = 0
    /\ evd_pc' = "done"
    /\ UNCHANGED <<evd_ext, evd_n, evd_E, evd_u, evd_par, evd_len>>
    /\ EvdOnly

EvdNext ==
    \/ evd_make_buffer
    \/ evd_alloc_trid
    \/ evd_alloc_householder
    \/ evd_tridiagonalize
    \/ evd_alloc_diag
    \/ evd_alloc_offdiag
    \/ evd_qr_algorithm
    \/ evd_alloc_u_real
    \/ evd_alloc_mul
    \/ evd_tridiag_real_evd
    \/ evd_apply_householder

SpecEvd == EvdInit /\ [][EvdNext]_vars

\* Every reach of the run stayed within the buffer: trid, householder, diag,
\* offdiag, and for complex E the real eigenvector matrix and the phase array,
\* with what the callees are handed. Whether this holds of a run turns on
\* evd_ext: line 80 counts the phase array as n values of E::Real where line
\* 245 carves out n values of E, and line 73 asks for the blocksize of n where
\* line 170 asks for that of n - 1.
EvdScratchWithinReq == evd_fits

\* The values of evd_ext under which the run is covered: the blocksize of
\* n - 1 is not above that of n, and for complex E with eigenvectors the
\* requirement of the divide and conquer for E exceeds the one for E::Real by
\* the n values of E::Real that the phase array is short of, and a cache line.
EvdCovered ==
    /\ evd_ext.blocksize_nm1 <= evd_ext.blocksize_n
    /\ (evd_E = "cplx" /\ evd_u) =>
           evd_ext.tridiag_evd.size >=
               evd_ext.tridiag_evd_real.size + CacheLineAlign
                   + evd_n * (SizeOf(evd_E) - SizeOf("real"))
EvdFitsWhenCovered == EvdCovered => evd_fits

\* A complex run with eigenvectors that overran the buffer at the phase
\* array, the blocksizes being equal and the callees taking no scratch.
EvdPhaseOverrun ==
    /\ evd_pc = "tridiag_real_evd" /\ evd_E = "cplx" /\ ~evd_fits
    /\ evd_ext.blocksize_n = evd_ext.blocksize_nm1
    /\ evd_ext.tridiag_evd = StackReq_empty

-----------------------------------------------------------------------------
(* Scratch of LDL^H with a diagonal D *)

LdltMaxDim == 260
LdltScalars == {"real", "cplx"}
LdltBlockThreshold == 32
LdltBlockCap == 128

\* raw_cholesky_in_place_req, lines 101-109
raw_cholesky_in_place_req(E, dim) == temp_mat_req(E, dim, dim)

\* cholesky_in_place_impl, line 126
ldlt_block_size(n) == Min(n \div 2, LdltBlockCap)

LdltFrame(op, n, bs) == [op |-> op, n |-> n, bs |-> bs]

LdltInit ==
    /\ ldlt_pc = "start"
    /\ ldlt_n \in 0 .. LdltMaxDim
    /\ ldlt_E \in LdltScalars
    /\ ldlt_len = 0
    /\ ldlt_stack = << >>
    /\ ldlt_peak = 0
    /\ ldlt_temps = 0
    /\ ldlt_fits = TRUE
    /\ IdleBut("ldlt")

LdltOnly == Others("ldlt")

\* The caller makes the buffer with raw_cholesky_in_place_req and calls
\* raw_cholesky_in_place, lines 203-215.
ldlt_raw_cholesky_in_place ==
    /\ ldlt_pc = "start"
    /\ ldlt_len' = raw_cholesky_in_place_req(ldlt_E, ldlt_n).size
    /\ ldlt_stack' = <<LdltFrame("impl", ldlt_n, 0)>>
    /\ ldlt_pc' = "run"
    /\ UNCHANGED <<ldlt_n, ldlt_E, ldlt_peak, ldlt_temps, ldlt_fits>>
    /\ LdltOnly

\* cholesky_in_place_impl, lines 123-124: the left looking base case takes no
\* scratch.
ldlt_impl_base ==
    /\ ldlt_pc = "run"
    /\ ldlt_stack # << >>
    /\ Head(ldlt_stack).op = "impl"
    /\ Head(ldlt_stack).n < LdltBlockThreshold
    /\ ldlt_stack' = Tail(ldlt_stack)
    /\ UNCHANGED <<ldlt_pc, ldlt_n, ldlt_E, ldlt_len, ldlt_peak, ldlt_temps,
                   ldlt_fits>>
    /\ LdltOnly

\* cholesky_in_place_impl, lines 126-130 and 173: recurse into l00, then the
\* update, then the tail call on a11.
ldlt_impl_split ==
    /\ ldlt_pc = "run"
    /\ ldlt_stack # << >>
    /\ Head(ldlt_stack).op = "impl"
    /\ Head(ldlt_stack).n >= LdltBlockThreshold
    /\ LET n == Head(ldlt_stack).n
           block_size == ldlt_block_size(n)
           rem == n - block_size
       IN ldlt_stack' = <<LdltFrame("impl", block_size, 0),
                          LdltFrame("update", rem, block_size),
                          LdltFrame("impl", rem, 0)>> \o Tail(ldlt_stack)
    /\ UNCHANGED <<ldlt_pc, ldlt_n, ldlt_E, ldlt_len, ldlt_peak, ldlt_temps,
                   ldlt_fits>>
    /\ LdltOnly

\* cholesky_in_place_impl, lines 135-171: the temporary rem x block_size is
\* carved from stack.rb_mut() and released at the end of the block.
ldlt_impl_update ==
    /\ ldlt_pc = "run"
    /\ ldlt_stack # << >>
    /\ Head(ldlt_stack).op = "update"
    /\ LET top == stack_temp_mat(0, ldlt_E, Head(ldlt_stack).n,
                                 Head(ldlt_stack).bs)
       IN /\ ldlt_peak' = Max(ldlt_peak, top)
          /\ ldlt_fits' = (ldlt_fits /\ top <= ldlt_len)
    /\ ldlt_temps' = ldlt_temps + 1
    /\ ldlt_stack' = Tail(ldlt_stack)
    /\ UNCHANGED <<ldlt_pc, ldlt_n, ldlt_E, ldlt_len>>
    /\ LdltOnly

\* raw_cholesky_in_place returns, line 214.
ldlt_return ==
    /\ ldlt_pc = "run"
    /\ ldlt_stack = << >>
    /\ ldlt_pc' = "done"
    /\ UNCHANGED <<ldlt_n, ldlt_E, ldlt_len, ldlt_stack, ldlt_peak,
                   ldlt_temps, ldlt_fits>>
    /\ LdltOnly

LdltNext ==
    \/ ldlt_raw_cholesky_in_place
    \/ ldlt_impl_base
    \/ ldlt_impl_split
    \/ ldlt_impl_update
    \/ ldlt_return

SpecLdlt == LdltInit /\ [][LdltNext]_vars

-----------------------------------------------------------------------------
(* Bunch-Kaufman, P A P^T = L B L^H with 1x1 and 2x2 blocks in B *)

BkMaxDim == 5
BkScalars == {"real", "cplx"}
\* BunchKaufmanParams::default().blocksize, line 42
BkDefaultBlocksize == 64
BkBlocksizes == {0, 1, 2, 3, BkDefaultBlocksize}

\* A pivot index with its bit pattern complemented, read as isize.
bk_not(p) == -p - 1

\* cholesky_in_place_req, lines 533-536
bk_req_bs(dim, blocksize) ==
    IF blocksize < 2 \/ dim <= blocksize THEN 0 ELSE blocksize

\* cholesky_in_place_req, lines 527-538
bk_cholesky_in_place_req(E, dim, blocksize) ==
    StackReq_and(StackReq_new("usize", dim),
                 temp_mat_req(E, dim, bk_req_bs(dim, blocksize)))

\* cholesky_in_place, lines 575-578
bk_work_bs_unconditional(n, blocksize) == blocksize
bk_work_bs(n, blocksize) ==
    IF blocksize < 2 \/ n <= blocksize THEN 0 ELSE blocksize

\* Largest magnitude of a matrix entry in a run.
BkMaxMag == 1
BkMags == 0 .. BkMaxMag
BkAbsVals == {NaN} \cup BkMags

\* What the caller's subdiag holds in every row before the factorization: a
\* nonzero value, which every row has to lose or to have replaced.
BkStale == BkMaxMag

\* max, lines 102-108
bk_max(a, b) == IF float_lt(b, a) THEN a ELSE b

\* x >= alpha * y for a magnitude y, with alpha = (1 + sqrt(17)) / 8 of lines
\* 569-571: 8 x - y >= sqrt(17) y
bk_ge_alpha_times(x, y) ==
    /\ x # NaN
    /\ 8 * x >= y
    /\ (8 * x - y) * (8 * x - y) >= 17 * y * y

\* lines 168-229 and 363-398: the pivot chosen at row k from |a[k, k]|, the
\* largest magnitude colmax below it, found at row imax, the largest magnitude
\* rowmax of row imax, and |a[imax, imax]|. d21 is the magnitude that ends at
\* a[k + 1, k] when the pivot is 2x2: the entry found at row imax.
bk_select(abs_akk, colmax, imax, rowmax, abs_aii, k) ==
    IF bk_max(abs_akk, colmax) = 0
    THEN [kp |-> k, k_step |-> 1, d21 |-> 0]
    ELSE IF bk_ge_alpha_times(abs_akk, colmax)
    THEN [kp |-> k, k_step |-> 1, d21 |-> 0]
    ELSE IF abs_akk # NaN
            /\ bk_ge_alpha_times(abs_akk * rowmax, colmax * colmax)
    THEN [kp |-> k, k_step |-> 1, d21 |-> 0]
    ELSE IF bk_ge_alpha_times(abs_aii, rowmax)
    THEN [kp |-> imax, k_step |-> 1, d21 |-> 0]
    ELSE [kp |-> imax, k_step |-> 2, d21 |-> colmax]

\* What a step can find at row k of a block of m rows: below the last row the
\* column is searched (best_score_idx keeps the first row when every entry is
\* zero), at the last row imax = 0 and colmax = 0 (lines 168-175 and 367-374);
\* row imax holds the entry of magnitude colmax, so rowmax is not below it.
BkPivotInputs(k, m) ==
    { in \in [abs_akk : BkAbsVals, colmax : BkMags, imax : 0 .. Max(0, m - k - 2),
              rowmax : BkMags, abs_aii : BkAbsVals] :
         /\ k + 1 < m \/ (in.colmax = 0 /\ in.imax = 0)
         /\ in.colmax = 0 => (in.imax = 0 /\ in.rowmax = 0 /\ in.abs_aii = 0)
         /\ in.rowmax >= in.colmax }

\* The pivots a step can settle on in a block of m rows at its row k.
BkPivotChoices(k, m) ==
    { bk_select(in.abs_akk, in.colmax, in.imax + k + 1, in.rowmax, in.abs_aii, k) :
         in \in BkPivotInputs(k, m) }

\* lines 284 and 411-413: a[k + 1, k] of a 2x2 pivot
bk_write_a21(a21, base, k, c) ==
    [i \in 1 .. Len(a21) |->
        IF c.k_step = 2 /\ i = base + k + 1 THEN c.d21 ELSE a21[i]]

\* lines 297-302 and 481-486: pivots[k] = kp, or !kp twice, in the slice of
\* the pivot array that starts at `base`.
bk_write_pivot(pivots, base, k, c) ==
    [i \in 1 .. Len(pivots) |->
        IF i = base + k + 1 THEN (IF c.k_step = 1 THEN c.kp ELSE bk_not(c.kp))
        ELSE IF c.k_step = 2 /\ i = base + k + 2 THEN bk_not(c.kp)
        ELSE pivots[i]]

bk_shift_pivots_added(pivots, k, kb) ==
    [i \in 1 .. Len(pivots) |->
        IF i >= k + 1 /\ i <= k + kb THEN pivots[i] + k ELSE pivots[i]]

\* cholesky_in_place, lines 601-607: the pivots of the block are moved from
\* the block's rows to the matrix's rows.
bk_shift_pivots(pivots, k, kb) ==
    [i \in 1 .. Len(pivots) |->
        IF i >= k + 1 /\ i <= k + kb
        THEN (IF pivots[i] >= 0 THEN pivots[i] + k ELSE pivots[i] - k)
        ELSE pivots[i]]

\* slice::swap, with indices from 0
bk_swap(perm, a, b) ==
    [i \in 1 .. Len(perm) |->
        IF i = a + 1 THEN perm[b + 1]
        ELSE IF i = b + 1 THEN perm[a + 1]
        ELSE perm[i]]

\* cholesky_in_place, lines 617-628
RECURSIVE bk_apply_pivots(_, _, _)
bk_apply_pivots(perm, pivots, i) ==
    IF i >= Len(perm) THEN perm
    ELSE LET p == pivots[i + 1] IN
         IF p < 0
         THEN bk_apply_pivots(bk_swap(perm, i + 1, bk_not(p)), pivots, i + 2)
         ELSE bk_apply_pivots(bk_swap(perm, i, p), pivots, i + 1)

\* cholesky_in_place, lines 614-628
bk_make_perm(n, pivots) == bk_apply_pivots([i \in 1 .. n |-> i - 1], pivots, 0)

\* cholesky_in_place, lines 629-631: perm_inv[p] = i for every (i, p) of perm
bk_invert_as_copy(perm, perm_inv) == perm
bk_invert(perm, perm_inv) ==
    [q \in 1 .. Len(perm_inv) |->
        IF \E i \in 1 .. Len(perm) : perm[i] = q - 1
        THEN (CHOOSE i \in 1 .. Len(perm) :
                 /\ perm[i] = q - 1
                 /\ \A j \in 1 .. Len(perm) : perm[j] = q - 1 => j <= i) - 1
        ELSE perm_inv[q]]

RECURSIVE bk_convert_subdiag_first_rows(_, _, _, _)
bk_convert_subdiag_first_rows(subdiag, a21, pivots, i) ==
    IF i >= Len(pivots) THEN subdiag
    ELSE IF pivots[i + 1] < 0
    THEN bk_convert_subdiag_first_rows(
             [j \in 1 .. Len(subdiag) |->
                 IF j = i + 1 THEN a21[i + 1] ELSE subdiag[j]],
             a21, pivots, i + 2)
    ELSE bk_convert_subdiag_first_rows(subdiag, a21, pivots, i + 1)

\* convert, lines 500-511: subdiag takes a[i + 1, i] at the first row of a
\* 2x2 block and zero elsewhere.
RECURSIVE bk_convert_subdiag(_, _, _, _)
bk_convert_subdiag(subdiag, a21, pivots, i) ==
    IF i >= Len(pivots) THEN subdiag
    ELSE IF pivots[i + 1] < 0
    THEN bk_convert_subdiag(
             [j \in 1 .. Len(subdiag) |->
                 IF j = i + 1 THEN a21[i + 1] ELSE IF j = i + 2 THEN 0
                 ELSE subdiag[j]], a21, pivots, i + 2)
    ELSE bk_convert_subdiag(
             [j \in 1 .. Len(subdiag) |->
                 IF j = i + 1 THEN 0 ELSE subdiag[j]], a21, pivots, i + 1)

\* convert, lines 500-505: a[i + 1, i] is set to zero at the first row of a
\* 2x2 block, after subdiag took it.
RECURSIVE bk_convert_a21(_, _, _)
bk_convert_a21(a21, pivots, i) ==
    IF i >= Len(pivots) THEN a21
    ELSE IF pivots[i + 1] < 0
    THEN bk_convert_a21([j \in 1 .. Len(a21) |-> IF j = i + 1 THEN 0 ELSE a21[j]],
                        pivots, i + 2)
    ELSE bk_convert_a21(a21, pivots, i + 1)

bk_blocked_continues_to_panel_end(sub, m, nb) == sub < m /\ sub < nb

\* cholesky_diagonal_pivoting_blocked_step, line 145: while k < n && k + 1 < nb
bk_blocked_continues(sub, m, nb) == sub < m /\ sub + 1 < nb

BkInit ==
    /\ bk_pc = "start"
    /\ bk_n \in 0 .. BkMaxDim
    /\ bk_E \in BkScalars
    /\ bk_blocksize \in BkBlocksizes
    /\ bk_len = 0
    /\ bk_off = 0
    /\ bk_fits = TRUE
    /\ bk_bs = 0
    /\ bk_k = 0
    /\ bk_sub = 0
    /\ bk_pivots = << >>
    /\ bk_subdiag = [i \in 1 .. bk_n |-> BkStale]
    /\ bk_perm = [i \in 1 .. bk_n |-> 0]
    /\ bk_perm_inv = [i \in 1 .. bk_n |-> 0]
    /\ bk_blocked = 0
    /\ bk_a21 = [i \in 1 .. bk_n |-> 0]
    /\ bk_si = 0
    /\ bk_sblocks = << >>
    /\ bk_oob = FALSE
    /\ IdleBut("bk")

BkOnly == Others("bk")

\* The caller makes the buffer with cholesky_in_place_req, with the dimension
\* and the parameters it then calls cholesky_in_place with.
bk_make_buffer ==
    /\ bk_pc = "start"
    /\ bk_len' = bk_cholesky_in_place_req(bk_E, bk_n, bk_blocksize).size
    /\ bk_pc' = "pivots"
    /\ UNCHANGED <<bk_n, bk_E, bk_blocksize, bk_off, bk_fits, bk_bs, bk_k,
                   bk_sub, bk_pivots, bk_subdiag, bk_perm, bk_perm_inv,
                   bk_blocked>>
    /\ UNCHANGED <<bk_a21, bk_si, bk_sblocks, bk_oob>>
    /\ BkOnly

\* cholesky_in_place, line 573: pivots = make_raw::<usize>(n)
bk_alloc_pivots ==
    /\ bk_pc = "pivots"
    /\ bk_off' = stack_make(bk_off, "usize", bk_n)
    /\ bk_fits' = (bk_fits /\ bk_off' <= bk_len)
    /\ bk_pivots' = [i \in 1 .. bk_n |-> 0]
    /\ bk_pc' = "work"
    /\ UNCHANGED <<bk_n, bk_E, bk_blocksize, bk_len, bk_bs, bk_k, bk_sub,
                   bk_subdiag, bk_perm, bk_perm_inv, bk_blocked>>
    /\ UNCHANGED <<bk_a21, bk_si, bk_sblocks, bk_oob>>
    /\ BkOnly

\* cholesky_in_place, lines 575-581: the panel width, then
\* work = temp_mat_uninit(n, bs)
bk_alloc_work ==
    /\ bk_pc = "work"
    /\ bk_bs' = bk_work_bs(bk_n, bk_blocksize)
    /\ bk_off' = stack_temp_mat(bk_off, bk_E, bk_n, bk_bs')
    /\ bk_fits' = (bk_fits /\ bk_off' <= bk_len)
    /\ bk_k' = 0
    /\ bk_pc' = "loop"
    /\ UNCHANGED <<bk_n, bk_E, bk_blocksize, bk_len, bk_sub, bk_pivots,
                   bk_subdiag, bk_perm, bk_perm_inv, bk_blocked>>
    /\ UNCHANGED <<bk_a21, bk_si, bk_sblocks, bk_oob>>
    /\ BkOnly

\* cholesky_in_place, lines 582-599: the blocked step while more than bs rows
\* remain, the unblocked loop for the rest.
bk_loop ==
    /\ bk_pc = "loop"
    /\ bk_pc' = IF bk_k >= bk_n THEN "convert"
                ELSE IF bk_bs >= 2 /\ bk_bs < bk_n - bk_k THEN "blocked"
                ELSE "unblocked"
    /\ bk_sub' = 0
    /\ UNCHANGED <<bk_n, bk_E, bk_blocksize, bk_len, bk_off, bk_fits, bk_bs,
                   bk_k, bk_pivots, bk_subdiag, bk_perm, bk_perm_inv,
                   bk_blocked>>
    /\ UNCHANGED <<bk_a21, bk_si, bk_sblocks, bk_oob>>
    /\ BkOnly

\* cholesky_diagonal_pivoting_blocked_step, lines 145-305: one pass of the
\* loop over the panel's columns.
bk_blocked_step(c) ==
    /\ bk_pc = "blocked"
    /\ bk_blocked_continues(bk_sub, bk_n - bk_k, bk_bs)
    /\ c \in BkPivotChoices(bk_sub, bk_n - bk_k)
    /\ bk_pivots' = bk_write_pivot(bk_pivots, bk_k, bk_sub, c)
    /\ bk_a21' = bk_write_a21(bk_a21, bk_k, bk_sub, c)
    /\ bk_sub' = bk_sub + c.k_step
    /\ bk_blocked' = bk_blocked + 1
    /\ UNCHANGED <<bk_pc, bk_n, bk_E, bk_blocksize, bk_len, bk_off, bk_fits,
                   bk_bs, bk_k, bk_subdiag, bk_perm, bk_perm_inv>>
    /\ UNCHANGED <<bk_si, bk_sblocks, bk_oob>>
    /\ BkOnly

\* cholesky_diagonal_pivoting_blocked_step returns k (lines 307-343);
\* cholesky_in_place, lines 601-609, moves the block's pivots and advances.
bk_blocked_return ==
    /\ bk_pc = "blocked"
    /\ ~bk_blocked_continues(bk_sub, bk_n - bk_k, bk_bs)
    /\ bk_pivots' = bk_shift_pivots(bk_pivots, bk_k, bk_sub)
    /\ bk_k' = bk_k + bk_sub
    /\ bk_pc' = "loop"
    /\ UNCHANGED <<bk_n, bk_E, bk_blocksize, bk_len, bk_off, bk_fits, bk_bs,
                   bk_sub, bk_subdiag, bk_perm, bk_perm_inv, bk_blocked>>
    /\ UNCHANGED <<bk_a21, bk_si, bk_sblocks, bk_oob>>
    /\ BkOnly

\* cholesky_diagonal_pivoting_unblocked, lines 358-489: one pass of the loop.
bk_unblocked_step(c) ==
    /\ bk_pc = "unblocked"
    /\ bk_sub < bk_n - bk_k
    /\ c \in BkPivotChoices(bk_sub, bk_n - bk_k)
    /\ bk_pivots' = bk_write_pivot(bk_pivots, bk_k, bk_sub, c)
    /\ bk_a21' = bk_write_a21(bk_a21, bk_k, bk_sub, c)
    /\ bk_sub' = bk_sub + c.k_step
    /\ UNCHANGED <<bk_pc, bk_n, bk_E, bk_blocksize, bk_len, bk_off, bk_fits,
                   bk_bs, bk_k, bk_subdiag, bk_perm, bk_perm_inv, bk_blocked>>
    /\ UNCHANGED <<bk_si, bk_sblocks, bk_oob>>
    /\ BkOnly

\* cholesky_diagonal_pivoting_unblocked returns; cholesky_in_place, lines
\* 598-609: kb = n - k.
bk_unblocked_return ==
    /\ bk_pc = "unblocked"
    /\ ~(bk_sub < bk_n - bk_k)
    /\ bk_pivots' = bk_shift_pivots(bk_pivots, bk_k, bk_n - bk_k)
    /\ bk_k' = bk_k + (bk_n - bk_k)
    /\ bk_pc' = "loop"
    /\ UNCHANGED <<bk_n, bk_E, bk_blocksize, bk_len, bk_off, bk_fits, bk_bs,
                   bk_sub, bk_subdiag, bk_perm, bk_perm_inv, bk_blocked>>
    /\ UNCHANGED <<bk_a21, bk_si, bk_sblocks, bk_oob>>
    /\ BkOnly

\* cholesky_in_place, line 612: convert
bk_convert ==
    /\ bk_pc = "convert"
    /\ bk_subdiag' = bk_convert_subdiag(bk_subdiag, bk_a21, bk_pivots, 0)
    /\ bk_a21' = bk_convert_a21(bk_a21, bk_pivots, 0)
    /\ bk_pc' = "perm"
    /\ UNCHANGED <<bk_n, bk_E, bk_blocksize, bk_len, bk_off, bk_fits, bk_bs,
                   bk_k, bk_sub, bk_pivots, bk_perm, bk_perm_inv, bk_blocked>>
    /\ UNCHANGED <<bk_si, bk_sblocks, bk_oob>>
    /\ BkOnly

\* cholesky_in_place, lines 614-633: perm from the pivots, then perm_inv.
bk_permutation ==
    /\ bk_pc = "perm"
    /\ bk_perm' = bk_make_perm(bk_n, bk_pivots)
    /\ bk_perm_inv' = bk_invert(bk_perm', bk_perm_inv)
    /\ bk_pc' = "done"
    /\ UNCHANGED <<bk_n, bk_E, bk_blocksize, bk_len, bk_off, bk_fits, bk_bs,
                   bk_k, bk_sub, bk_pivots, bk_subdiag, bk_blocked>>
    /\ UNCHANGED <<bk_a21, bk_si, bk_sblocks, bk_oob>>
    /\ BkOnly

\* solve_in_place_with_conj, lines 680-682: the loop over the blocks of B
\* starts, with the factors, subdiag and perm of the factorization.
bk_solve_begin ==
    /\ bk_pc = "done"
    /\ bk_pc' = "solve"
    /\ bk_si' = 0
    /\ bk_sblocks' = << >>
    /\ UNCHANGED <<bk_n, bk_E, bk_blocksize, bk_len, bk_off, bk_fits, bk_bs,
                   bk_k, bk_sub, bk_pivots, bk_subdiag, bk_perm, bk_perm_inv,
                   bk_blocked, bk_a21, bk_oob>>
    /\ BkOnly

\* solve_in_place_with_conj, lines 683-719: one pass of the loop; rows
\* i and i + 1 of a and x are read when subdiag[i] is not zero.
bk_solve_block ==
    /\ bk_pc = "solve"
    /\ bk_si < bk_n
    /\ IF bk_subdiag[bk_si + 1] = 0
       THEN /\ bk_sblocks' = Append(bk_sblocks, <<bk_si, 1>>)
            /\ bk_si' = bk_si + 1
            /\ UNCHANGED <<bk_pc, bk_oob>>
       ELSE IF bk_si + 1 >= bk_n
       THEN /\ bk_oob' = TRUE
            /\ bk_pc' = "panic"
            /\ UNCHANGED <<bk_si, bk_sblocks>>
       ELSE /\ bk_sblocks' = Append(bk_sblocks, <<bk_si, 2>>)
            /\ bk_si' = bk_si + 2
            /\ UNCHANGED <<bk_pc, bk_oob>>
    /\ UNCHANGED <<bk_n, bk_E, bk_blocksize, bk_len, bk_off, bk_fits, bk_bs,
                   bk_k, bk_sub, bk_pivots, bk_subdiag, bk_perm, bk_perm_inv,
                   bk_blocked, bk_a21>>
    /\ BkOnly

\* solve_in_place_with_conj, lines 682 and 721-722: the loop ends
bk_solve_end ==
    /\ bk_pc = "solve"
    /\ bk_si >= bk_n
    /\ bk_pc' = "solved"
    /\ UNCHANGED <<bk_n, bk_E, bk_blocksize, bk_len, bk_off, bk_fits, bk_bs,
                   bk_k, bk_sub, bk_pivots, bk_subdiag, bk_perm, bk_perm_inv,
                   bk_blocked, bk_a21, bk_si, bk_sblocks, bk_oob>>
    /\ BkOnly

BkNext ==
    \/ bk_make_buffer
    \/ bk_alloc_pivots
    \/ bk_alloc_work
    \/ bk_loop
    \/ \E kp \in 0 .. BkMaxDim, k_step \in {1, 2}, d21 \in BkMags :
           bk_blocked_step([kp |-> kp, k_step |-> k_step, d21 |-> d21])
    \/ bk_blocked_return
    \/ \E kp \in 0 .. BkMaxDim, k_step \in {1, 2}, d21 \in BkMags :
           bk_unblocked_step([kp |-> kp, k_step |-> k_step, d21 |-> d21])
    \/ bk_unblocked_return
    \/ bk_convert
    \/ bk_permutation
    \/ bk_solve_begin
    \/ bk_solve_block
    \/ bk_solve_end

SpecBk == BkInit /\ [][BkNext]_vars

\* The two factorizations that take scratch, each called by the protocol.
SpecLdltBk == (LdltInit \/ BkInit) /\ [][LdltNext \/ BkNext]_vars

BkWorkCarved == bk_pc \in {"loop", "blocked", "unblocked", "convert", "perm",
                           "done", "solve", "solved", "panic"}

\* C4: the temporary of every level of raw_cholesky_in_place fits in
\* temp_mat_req(dim, dim); Bunch-Kaufman's pivot array and work panel fit in
\* cholesky_in_place_req, and the panel width is the one the sizing function
\* used.
C4_FactorScratchFits ==
    /\ ldlt_fits
    /\ ldlt_peak <= ldlt_len
    /\ bk_fits
    /\ BkWorkCarved => /\ bk_bs = bk_req_bs(bk_n, bk_blocksize)
                       /\ bk_off <= bk_len

C4_Witness ==
    \/ /\ ldlt_pc = "done" /\ ldlt_n >= 2 * LdltBlockCap /\ ldlt_temps >= 3
       /\ ldlt_peak > 0 /\ ldlt_peak <= ldlt_len /\ ldlt_fits
    \/ /\ bk_pc = "done" /\ bk_bs >= 2 /\ bk_blocked >= 1 /\ bk_fits
       /\ bk_off = bk_len

\* C10: on return, perm and perm_inv are permutations of 0..n-1 and inverse
\* to each other, whatever 1x1 and 2x2 pivots were recorded.
C10_PermInverse ==
    bk_pc = "done" =>
        /\ Len(bk_perm) = bk_n /\ Len(bk_perm_inv) = bk_n
        /\ {bk_perm[i] : i \in 1 .. bk_n} = 0 .. (bk_n - 1)
        /\ {bk_perm_inv[i] : i \in 1 .. bk_n} = 0 .. (bk_n - 1)
        /\ \A i \in 1 .. bk_n : bk_perm_inv[bk_perm[i] + 1] = i - 1
        /\ \A i \in 1 .. bk_n : bk_perm[bk_perm_inv[i] + 1] = i - 1

C10_Witness ==
    /\ bk_pc = "done" /\ bk_n >= 4 /\ bk_blocked >= 1
    /\ \E i \in 1 .. bk_n : bk_pivots[i] < 0
    /\ \E i \in 1 .. bk_n : bk_pivots[i] >= 0 /\ bk_pivots[i] # i - 1
    /\ bk_perm # bk_perm_inv
    /\ \A i \in 1 .. bk_n : bk_perm_inv[bk_perm[i] + 1] = i - 1

\* The index a pivot record holds.
bk_index(p) == IF p >= 0 THEN p ELSE bk_not(p)

\* The records of the rows i .. hi - 1, which hold indices counted from row
\* off, are well-formed in a matrix of n rows.
RECURSIVE bk_records_ok(_, _, _, _, _)
bk_records_ok(pivots, i, hi, off, n) ==
    IF i >= hi THEN TRUE
    ELSE LET p == pivots[i + 1] IN
         IF p >= 0
         THEN /\ i <= p + off /\ p + off < n
              /\ bk_records_ok(pivots, i + 1, hi, off, n)
         ELSE /\ i + 1 < hi /\ i + 1 < n
              /\ pivots[i + 2] = p
              /\ i + 1 <= bk_not(p) + off /\ bk_not(p) + off < n
              /\ bk_records_ok(pivots, i + 2, hi, off, n)

BkFactoring == bk_pc \in {"loop", "blocked", "unblocked"}
BkFactored == bk_pc \in {"convert", "perm", "done", "solve", "solved", "panic"}

BkRecordsWellFormed ==
    /\ BkFactoring \/ BkFactored =>
          bk_records_ok(bk_pivots, 0, bk_k, 0, bk_n)
    /\ bk_pc \in {"blocked", "unblocked"} =>
          bk_records_ok(bk_pivots, bk_k, bk_k + bk_sub, bk_k, bk_n)

\* The step in which cholesky_in_place moves the records of a block.
BkShiftIsOfIndex ==
    (bk_pc \in {"blocked", "unblocked"} /\ bk_pc' = "loop") =>
        \A i \in (bk_k + 1) .. bk_k' :
            /\ (bk_pivots'[i] >= 0) = (bk_pivots[i] >= 0)
            /\ bk_index(bk_pivots'[i]) = bk_index(bk_pivots[i]) + bk_k

\* C21: every 1x1 pivot at row k holds an index p with k <= p < n; every 2x2
\* pivot at rows k, k + 1 holds the complement of one index p with
\* k + 1 <= p < n in both rows and does not start at the last row; and moving
\* a block's records by the block's offset gives the records of the indices
\* moved by the offset.
C21_PivotRecords == []BkRecordsWellFormed /\ [][BkShiftIsOfIndex]_vars

\* A 2x2 pivot and an interchanging 1x1 pivot recorded in a block that does
\* not start at the first row.
C21_Witness ==
    /\ bk_pc = "done" /\ bk_blocked >= 1
    /\ \E i \in 3 .. bk_n : bk_pivots[i] < 0 /\ bk_not(bk_pivots[i]) > i
    /\ \E i \in 2 .. bk_n : bk_pivots[i] >= 0 /\ bk_pivots[i] > i - 1

\* C25: the blocked step is called with a panel of bs columns, 2 <= bs <
\* n - k; it returns kb with 1 <= kb <= bs; no pivot runs past the panel or
\* the matrix; and the loop of cholesky_in_place ends with k = n.
C25_OuterLoopProgress ==
    /\ bk_pc = "blocked" =>
          /\ 2 <= bk_bs /\ bk_bs < bk_n - bk_k
          /\ bk_sub <= bk_bs /\ bk_sub < bk_n - bk_k
          /\ ~bk_blocked_continues(bk_sub, bk_n - bk_k, bk_bs) => 1 <= bk_sub
    /\ bk_pc = "unblocked" => bk_sub <= bk_n - bk_k
    /\ BkFactoring => bk_k <= bk_n
    /\ BkFactored => bk_k = bk_n

\* A second blocked step that returns a full panel ending in a 2x2 pivot.
C25_Witness ==
    /\ bk_pc = "blocked" /\ bk_k > 0
    /\ ~bk_blocked_continues(bk_sub, bk_n - bk_k, bk_bs)
    /\ bk_sub = bk_bs
    /\ bk_pivots[bk_k + bk_sub] < 0

\* The blocks <<first row, size>> the pivot records describe, from row i on.
RECURSIVE bk_blocks(_, _)
bk_blocks(pivots, i) ==
    IF i >= Len(pivots) THEN << >>
    ELSE IF pivots[i + 1] < 0 THEN <<<<i, 2>>>> \o bk_blocks(pivots, i + 2)
    ELSE <<<<i, 1>>>> \o bk_blocks(pivots, i + 1)

bk_recorded == bk_blocks(bk_pivots, 0)

\* C26: after convert, subdiag is zero at every 1x1 pivot and at the second
\* row of every 2x2 pivot and nonzero at the first row of every 2x2 pivot; the
\* solve goes through exactly the recorded blocks and reads no row past the
\* last.
C26_SolveFollowsRecordedBlocks ==
    /\ bk_pc \in {"perm", "done", "solve", "solved", "panic"} =>
          \A b \in 1 .. Len(bk_recorded) :
              LET r == bk_recorded[b][1] IN
              IF bk_recorded[b][2] = 1 THEN bk_subdiag[r + 1] = 0
              ELSE bk_subdiag[r + 1] # 0 /\ bk_subdiag[r + 2] = 0
    /\ bk_pc \in {"solve", "solved"} =>
          /\ Len(bk_sblocks) <= Len(bk_recorded)
          /\ bk_sblocks = SubSeq(bk_recorded, 1, Len(bk_sblocks))
    /\ bk_pc = "solved" => bk_sblocks = bk_recorded
    /\ ~bk_oob
    /\ bk_pc # "panic"

\* A solve through 1x1 and 2x2 blocks, the last block a 2x2 one.
C26_Witness ==
    /\ bk_pc = "solved" /\ bk_n >= 3
    /\ \E b \in 1 .. Len(bk_sblocks) : bk_sblocks[b][2] = 1
    /\ bk_sblocks[Len(bk_sblocks)] = <<bk_n - 2, 2>>

-----------------------------------------------------------------------------
(* The decomposition handles Llt, Ldlt and Lblt *)

SolMaxDim == 70
SolScalars == {"real", "cplx"}
SolKinds == {"llt", "ldlt", "bunch_kaufman"}

\* llt::compute::cholesky_in_place_req, lines 146-158
llt_cholesky_in_place_req(T, dim) == StackReq_empty

\* The sizing function of each factorization.
sol_scratch(kind, T, n) ==
    IF kind = "llt" THEN llt_cholesky_in_place_req(T, n)
    ELSE IF kind = "ldlt" THEN raw_cholesky_in_place_req(T, n)
    ELSE bk_cholesky_in_place_req(T, n, BkDefaultBlocksize)

\* The top of the stack the LDL^H recursion reaches (ldlt_diagonal/compute.rs,
\* lines 111-175).
RECURSIVE ldlt_scratch_used(_, _)
ldlt_scratch_used(T, n) ==
    IF n < LdltBlockThreshold THEN 0
    ELSE LET block_size == ldlt_block_size(n)
             rem == n - block_size
         IN Max(Max(ldlt_scratch_used(T, block_size),
                    stack_temp_mat(0, T, rem, block_size)),
                ldlt_scratch_used(T, rem))

\* The top of the stack Bunch-Kaufman reaches (bunch_kaufman/mod.rs, lines
\* 573-579).
bk_scratch_used(T, n, blocksize) ==
    stack_temp_mat(stack_make(0, "usize", n), T, n, bk_work_bs(n, blocksize))

SolInit ==
    /\ sol_pc = "new"
    /\ sol_kind \in SolKinds
    /\ sol_n \in 0 .. SolMaxDim
    /\ sol_T \in SolScalars
    /\ sol_sized_by = "none"
    /\ sol_len = 0
    /\ sol_used = 0
    /\ IdleBut("sol")

SolOnly == Others("sol")

\* Llt::new_imp, lines 417-430
Llt_new_imp ==
    /\ sol_pc = "new"
    /\ sol_kind = "llt"
    /\ sol_sized_by' = "llt"
    /\ sol_len' = sol_scratch("llt", sol_T, sol_n).size
    /\ sol_used' = 0
    /\ sol_pc' = "done"
    /\ UNCHANGED <<sol_kind, sol_n, sol_T>>
    /\ SolOnly

\* Ldlt::new_imp, lines 452-469
Ldlt_new_imp ==
    /\ sol_pc = "new"
    /\ sol_kind = "ldlt"
    /\ sol_sized_by' = "llt"
    /\ sol_len' = sol_scratch("llt", sol_T, sol_n).size
    /\ sol_used' = ldlt_scratch_used(sol_T, sol_n)
    /\ sol_pc' = "done"
    /\ UNCHANGED <<sol_kind, sol_n, sol_T>>
    /\ SolOnly

\* Lblt::new_imp, lines 494-520
Lblt_new_imp ==
    /\ sol_pc = "new"
    /\ sol_kind = "bunch_kaufman"
    /\ sol_sized_by' = "llt"
    /\ sol_len' = sol_scratch("llt", sol_T, sol_n).size
    /\ sol_used' = bk_scratch_used(sol_T, sol_n, BkDefaultBlocksize)
    /\ sol_pc' = "done"
    /\ UNCHANGED <<sol_kind, sol_n, sol_T>>
    /\ SolOnly

SolNext ==
    \/ Llt_new_imp
    \/ Ldlt_new_imp
    \/ Lblt_new_imp

SpecSol == SolInit /\ [][SolNext]_vars

\* C5: every handle constructor sizes its buffer with the sizing function of
\* the factorization it then calls, so that the factorization's scratch fits.
C5_PairedSizing ==
    sol_pc = "done" => /\ sol_sized_by = sol_kind
                       /\ sol_used <= sol_len

-----------------------------------------------------------------------------
(* The QR algorithm for a real symmetric tridiagonal matrix *)

\* The entries are binary64 floats, and the arithmetic on them is that of f64:
\* every operation gives the float nearest to the exact result, a tie going to
\* the even one, with the infinities and NaN.

\* An integer of up to 112 bits is eight limbs of 14 bits, the lowest first.
BigRadix == 2 ^ 14
BigZero == <<0, 0, 0, 0, 0, 0, 0, 0>>
BigOne == <<1, 0, 0, 0, 0, 0, 0, 0>>

\* The limbs of the integer whose columns are c: the carries are passed up.
big_carry(c) ==
    LET t1 == c[1]
        t2 == c[2] + (t1 \div BigRadix)
        t3 == c[3] + (t2 \div BigRadix)
        t4 == c[4] + (t3 \div BigRadix)
        t5 == c[5] + (t4 \div BigRadix)
        t6 == c[6] + (t5 \div BigRadix)
        t7 == c[7] + (t6 \div BigRadix)
        t8 == c[8] + (t7 \div BigRadix)
    IN  <<t1 % BigRadix, t2 % BigRadix, t3 % BigRadix, t4 % BigRadix,
          t5 % BigRadix, t6 % BigRadix, t7 % BigRadix, t8 % BigRadix>>

big_of_limbs(m) == <<m[1], m[2], m[3], m[4], 0, 0, 0, 0>>
\* a + b, and a - b for a >= b; every operand is worked out once
big_add(a, b) ==
    CHOOSE r \in {big_carry([i \in 1 .. 8 |-> x[i] + y[i]]) :
                     x \in {a}, y \in {b}} : TRUE
big_sub(a, b) ==
    CHOOSE r \in {big_carry([i \in 1 .. 8 |-> x[i] - y[i]]) :
                     x \in {a}, y \in {b}} : TRUE

RECURSIVE big_lt_from(_, _, _)
big_lt_from(a, b, i) ==
    IF i = 0 THEN FALSE
    ELSE IF a[i] # b[i] THEN a[i] < b[i]
    ELSE big_lt_from(a, b, i - 1)
big_lt(a, b) == \E x \in {a}, y \in {b} : big_lt_from(x, y, 8)

\* The number of bits of a
limb_bitlen(x) == CHOOSE k \in 1 .. 14 : 2 ^ (k - 1) <= x /\ x < 2 ^ k
big_top(a) == CHOOSE i \in 1 .. 8 : a[i] # 0 /\ \A j \in (i + 1) .. 8 : a[j] = 0
big_bitlen_of(a) ==
    IF a = BigZero THEN 0
    ELSE CHOOSE r \in {14 * (top - 1) + limb_bitlen(a[top]) :
                          top \in {big_top(a)}} : TRUE
big_bitlen(a) == CHOOSE r \in {big_bitlen_of(x) : x \in {a}} : TRUE

\* a * 2^k, which fits, and the whole part of a / 2^k
big_shl(a, k) ==
    CHOOSE r \in
        {big_carry([i \in 1 .. 8 |->
                          IF i > n \div 14 THEN x[i - n \div 14] * 2 ^ (n % 14)
                          ELSE 0]) :
            x \in {a}, n \in {k}} : TRUE
big_limb(a, i) == IF i <= 8 THEN a[i] ELSE 0
big_shr(a, k) ==
    CHOOSE r \in
        {[i \in 1 .. 8 |->
             big_limb(x, i + n \div 14) \div 2 ^ (n % 14)
             + (big_limb(x, i + n \div 14 + 1) % 2 ^ (n % 14))
               * 2 ^ (14 - (n % 14))] :
            x \in {a}, n \in {k}} : TRUE

\* a * b for a and b of four limbs
big_mul_cols(a, b) ==
    <<a[1] * b[1],
      a[1] * b[2] + a[2] * b[1],
      a[1] * b[3] + a[2] * b[2] + a[3] * b[1],
      a[1] * b[4] + a[2] * b[3] + a[3] * b[2] + a[4] * b[1],
      a[2] * b[4] + a[3] * b[3] + a[4] * b[2],
      a[3] * b[4] + a[4] * b[3],
      a[4] * b[4],
      0>>
big_mul(a, b) ==
    CHOOSE r \in {big_carry(c) :
                     c \in {big_mul_cols(x, y) : x \in {a}, y \in {b}}} : TRUE

\* One digit of a long division by d, of 56 bits: t < d * BigRadix; the digit
\* is guessed from the leading limbs, never too high, and put right.
RECURSIVE big_div_fix(_, _, _)
big_div_fix(q, rem, d) ==
    IF big_lt(rem, d) THEN [q |-> q, rem |-> rem]
    ELSE CHOOSE r \in {big_div_fix(q + 1, less, d) :
                           less \in {big_sub(rem, d)}} : TRUE
big_div_guess(t, d) ==
    CHOOSE r \in {big_div_fix(g[1], g[2], d) :
                     g \in {<<qh, big_carry([i \in 1 .. 8 |-> t[i] - qh * d[i]])>> :
                               qh \in {(t[5] * BigRadix + t[4]) \div (d[4] + 1)}}} : TRUE
big_div_digit(t, d) == CHOOSE r \in {big_div_guess(num, d) : num \in {t}} : TRUE

\* The quotient and the remainder of n by d, d of 56 bits, limb i downwards.
RECURSIVE big_div_from(_, _, _, _, _)
big_div_from(n, d, i, rem, quot) ==
    IF i = 0 THEN [quot |-> quot, rem |-> rem]
    ELSE CHOOSE r \in
             {big_div_from(n, d, i - 1, g.rem, [quot EXCEPT ![i] = g.q]) :
                 g \in {big_div_digit(<<n[i], rem[1], rem[2], rem[3], rem[4],
                                        rem[5], rem[6], rem[7]>>, d)}} : TRUE
big_divmod(n, d) ==
    CHOOSE r \in {big_div_from(x, y, 8, BigZero, BigZero) :
                     x \in {n}, y \in {d}} : TRUE

\* The largest r with r * r <= a, by Newton's iteration from r, not below it.
RECURSIVE int_isqrt_from(_, _)
int_isqrt_from(a, r) ==
    CHOOSE root \in {IF next >= r THEN r ELSE int_isqrt_from(a, next) :
                        next \in {(r + a \div r) \div 2}} : TRUE

\* The same for n of 109 or 110 bits; n2 is 2 * n and s is not below the root.
RECURSIVE big_isqrt_from(_, _)
big_isqrt_from(n2, s) ==
    CHOOSE root \in
        {IF big_lt(next, s) THEN big_isqrt_from(n2, next) ELSE s :
            next \in {big_shr(big_add(s, big_divmod(n2, d).quot), 1) :
                         d \in {big_shl(s, 1)}}} : TRUE
big_isqrt_start(r) ==
    IF r >= 2 ^ 13 THEN <<BigRadix - 1, BigRadix - 1, BigRadix - 1, 2 ^ 13 - 1,
                          0, 0, 0, 0>>
    ELSE <<0, 0, 0, r, 0, 0, 0, 0>>
big_isqrt(n) ==
    CHOOSE root \in
        {big_isqrt_from(n2, big_isqrt_start(r)) :
            n2 \in {big_shl(n, 1)},
            r \in {int_isqrt_from(n[7] + n[8] * BigRadix, 2 ^ 13) + 1}} : TRUE

\* A binary64 is a record: k is "num", "inf" or "nan", s is the sign bit, and
\* a number is m * 2^e with m of four limbs: m is of 53 bits, or of fewer and e
\* is F64MinExp.
F64MinExp == (-1022) - 52
F64MaxExp == 1023 - 52
f64_nan == [k |-> "nan", s |-> 0, e |-> F64MinExp, m |-> <<0, 0, 0, 0>>]
f64_inf(s) == [k |-> "inf", s |-> s, e |-> F64MinExp, m |-> <<0, 0, 0, 0>>]
f64_zero(s) == [k |-> "num", s |-> s, e |-> F64MinExp, m |-> <<0, 0, 0, 0>>]
f64_pack_of(s, m, e) ==
    IF m[4] = 2 ^ 11
    THEN IF e + 1 > F64MaxExp THEN f64_inf(s)
         ELSE [k |-> "num", s |-> s, e |-> e + 1, m |-> <<0, 0, 0, 2 ^ 10>>]
    ELSE IF e > F64MaxExp THEN f64_inf(s)
    ELSE [k |-> "num", s |-> s, e |-> e, m |-> <<m[1], m[2], m[3], m[4]>>]

f64_pack(s, m, e) == CHOOSE r \in {f64_pack_of(s, x, e) : x \in {m}} : TRUE

\* big * 2^e, and a little more when sticky, rounded to the nearest binary64,
\* a tie to the even one; sh is the number of low bits that are dropped.
f64_round_up(s, q1, q, e, inexact) ==
    f64_pack(s,
             IF q1[1] % 2 = 1 /\ (inexact \/ q[1] % 2 = 1) THEN big_add(q, BigOne)
             ELSE q,
             e)
f64_round_at(s, big, e, sticky, sh) ==
    IF sh > 0
    THEN CHOOSE r \in
             {f64_round_up(s, q1, q, e + sh, sticky \/ big_shl(q1, sh - 1) # big) :
                 q1 \in {big_shr(big, sh - 1)},
                 q \in {big_shr(big, sh)}} : TRUE
    ELSE CHOOSE r \in {f64_pack(s, m, e + sh) : m \in {big_shl(big, -sh)}} : TRUE
f64_round_of(s, big, e, sticky) ==
    IF big = BigZero THEN f64_zero(s)
    ELSE CHOOSE r \in
             {f64_round_at(s, big, e, sticky, IF len - 53 > F64MinExp - e
                                              THEN len - 53
                                              ELSE F64MinExp - e) :
                 len \in {big_bitlen(big)}} : TRUE
f64_round(s, big, e, sticky) ==
    CHOOSE r \in {f64_round_of(s, x, e, sticky) : x \in {big}} : TRUE

f64_is_nan(x) == x.k = "nan"
f64_is_zero(x) == x.k = "num" /\ x.m = <<0, 0, 0, 0>>
f64_of_nat(v) == f64_round(0, <<v % BigRadix, v \div BigRadix, 0, 0, 0, 0, 0, 0>>,
                           0, FALSE)

\* |x| < |y| for x and y that are not NaN
f64_mag_lt(x, y) ==
    IF x.k = "inf" THEN FALSE
    ELSE IF y.k = "inf" THEN TRUE
    ELSE \/ x.e < y.e
         \/ x.e = y.e /\ big_lt_from(x.m, y.m, 4)
f64_eq_of(x, y) ==
    /\ ~f64_is_nan(x) /\ ~f64_is_nan(y)
    /\ x = y \/ (f64_is_zero(x) /\ f64_is_zero(y))
f64_lt_of(x, y) ==
    /\ ~f64_is_nan(x) /\ ~f64_is_nan(y)
    /\ ~(f64_is_zero(x) /\ f64_is_zero(y))
    /\ IF x.s # y.s THEN x.s = 1
       ELSE IF x.s = 0 THEN f64_mag_lt(x, y)
       ELSE f64_mag_lt(y, x)

f64_neg_of(x) == IF f64_is_nan(x) THEN x ELSE [x EXCEPT !.s = 1 - x.s]
f64_abs_of(x) == IF f64_is_nan(x) THEN x ELSE [x EXCEPT !.s = 0]

\* hi + lo for numbers with hi.e >= lo.e; wide is hi.m * 2^(hi.e - lo.e)
f64_add_wide(hi, lo, wide, low) ==
    IF hi.s = lo.s THEN f64_round(hi.s, big_add(wide, low), lo.e, FALSE)
    ELSE IF wide = low THEN f64_zero(0)
    ELSE IF big_lt(low, wide) THEN f64_round(hi.s, big_sub(wide, low), lo.e, FALSE)
    ELSE f64_round(lo.s, big_sub(low, wide), lo.e, FALSE)
f64_add_num(hi, lo) ==
    IF hi.e - lo.e >= 56 THEN hi
    ELSE CHOOSE r \in
             {f64_add_wide(hi, lo, wide, big_of_limbs(lo.m)) :
                 wide \in {big_shl(big_of_limbs(hi.m), hi.e - lo.e)}} : TRUE
f64_add_of(x, y) ==
    IF f64_is_nan(x) \/ f64_is_nan(y) THEN f64_nan
    ELSE IF x.k = "inf" THEN (IF y.k = "inf" /\ x.s # y.s THEN f64_nan ELSE x)
    ELSE IF y.k = "inf" THEN y
    ELSE IF x.e < y.e THEN f64_add_num(y, x)
    ELSE f64_add_num(x, y)

f64_mul_of(x, y) ==
    IF f64_is_nan(x) \/ f64_is_nan(y) THEN f64_nan
    ELSE IF x.k = "inf" \/ y.k = "inf"
    THEN (IF f64_is_zero(x) \/ f64_is_zero(y) THEN f64_nan
          ELSE f64_inf((x.s + y.s) % 2))
    ELSE CHOOSE r \in {f64_round((x.s + y.s) % 2, prod, x.e + y.e, FALSE) :
                          prod \in {big_mul(x.m, y.m)}} : TRUE

\* x / y for numbers that are not zero: xlen and ylen are the bits of their m
f64_div_num(x, y, xlen, ylen) ==
    CHOOSE r \in
        {f64_round((x.s + y.s) % 2, d.quot, (x.e - y.e) + (xlen - ylen) - 56,
                   d.rem # BigZero) :
            d \in {big_divmod(n, den) :
                      n \in {big_shl(big_of_limbs(x.m), 112 - xlen)},
                      den \in {big_shl(big_of_limbs(y.m), 56 - ylen)}}} : TRUE
f64_div_of(x, y) ==
    IF f64_is_nan(x) \/ f64_is_nan(y) THEN f64_nan
    ELSE IF x.k = "inf"
    THEN (IF y.k = "inf" THEN f64_nan ELSE f64_inf((x.s + y.s) % 2))
    ELSE IF y.k = "inf" THEN f64_zero((x.s + y.s) % 2)
    ELSE IF f64_is_zero(y)
    THEN (IF f64_is_zero(x) THEN f64_nan ELSE f64_inf((x.s + y.s) % 2))
    ELSE IF f64_is_zero(x) THEN f64_zero((x.s + y.s) % 2)
    ELSE CHOOSE r \in
             {f64_div_num(x, y, xlen, ylen) :
                 xlen \in {big_bitlen(big_of_limbs(x.m))},
                 ylen \in {big_bitlen(big_of_limbs(y.m))}} : TRUE

\* The root of m * 2^e for m of 53 bits: n is m * 2^56, or twice that when e
\* is odd, and e2 is the exponent of n, which is even.
f64_sqrt_wide(n, e2) ==
    CHOOSE r \in
        {f64_round(0, root, e2 \div 2, big_mul(root, root) # n) :
            root \in {big_isqrt(n)}} : TRUE
f64_sqrt_num(x, e) ==
    CHOOSE r \in
        {f64_sqrt_wide(n, (e - (e % 2)) - 56) :
            n \in {big_shl(big_of_limbs(x.m), (x.e - e) + 56 + (e % 2))}} : TRUE
f64_sqrt_of(x) ==
    IF f64_is_nan(x) THEN f64_nan
    ELSE IF f64_is_zero(x) THEN x
    ELSE IF x.s = 1 THEN f64_nan
    ELSE IF x.k = "inf" THEN x
    ELSE CHOOSE r \in
             {f64_sqrt_num(x, x.e - (53 - len)) :
                 len \in {big_bitlen(big_of_limbs(x.m))}} : TRUE

\* The integer v, of fewer than 28 bits, and 2^p for a whole p
f64_of_int(v) == IF v < 0 THEN f64_neg_of(f64_of_nat(-v)) ELSE f64_of_nat(v)
f64_pow2(p) == [k |-> "num", s |-> 0, e |-> p - 52, m |-> <<0, 0, 0, 2 ^ 10>>]

\* The arithmetic and the comparisons of f64: each operand is worked out once.
faer_add(a, b) == CHOOSE r \in {f64_add_of(x, y) : x \in {a}, y \in {b}} : TRUE
faer_sub(a, b) ==
    CHOOSE r \in {f64_add_of(x, f64_neg_of(y)) : x \in {a}, y \in {b}} : TRUE
faer_neg(a) == CHOOSE r \in {f64_neg_of(x) : x \in {a}} : TRUE
faer_abs(a) == CHOOSE r \in {f64_abs_of(x) : x \in {a}} : TRUE
faer_mul(a, b) == CHOOSE r \in {f64_mul_of(x, y) : x \in {a}, y \in {b}} : TRUE
faer_div(a, b) == CHOOSE r \in {f64_div_of(x, y) : x \in {a}, y \in {b}} : TRUE
faer_abs2(a) == CHOOSE r \in {f64_mul_of(x, x) : x \in {a}} : TRUE
faer_sqrt(a) == CHOOSE r \in {f64_sqrt_of(x) : x \in {a}} : TRUE
faer_inv(a) == CHOOSE r \in {f64_div_of(f64_of_nat(1), x) : x \in {a}} : TRUE
f64_lt(a, b) == \E x \in {a}, y \in {b} : f64_lt_of(x, y)
f64_le(a, b) == \E x \in {a}, y \in {b} : f64_lt_of(x, y) \/ f64_eq_of(x, y)
f64_ne(a, b) == \E x \in {a}, y \in {b} : ~f64_eq_of(x, y)

\* The entries of a run are NaN or whole numbers: 0 .. QrMaxVal on the
\* diagonal, 0 .. QrMaxClass off it.
QrMaxDim == 3
QrMaxVal == 1
QrMaxClass == 3
QrDiagVals == {f64_nan} \cup {f64_of_nat(v) : v \in 0 .. QrMaxVal}
QrOffdiagVals == {f64_nan} \cup {f64_of_nat(v) : v \in 0 .. QrMaxClass}

\* The thresholds the function is called with: epsilon is f64::EPSILON and
\* consider_zero_threshold is f64::MIN_POSITIVE.
qr_epsilon == f64_pow2(-52)
qr_consider_zero_threshold == f64_pow2(-1022)

\* lines 43-47: the deflation test of offdiag[i]
qr_negligible(diag, offdiag, i) ==
    \/ f64_lt(faer_abs(offdiag[i + 1]), qr_consider_zero_threshold)
    \/ f64_le(faer_abs(offdiag[i + 1]),
                faer_mul(qr_epsilon,
                         faer_sqrt(faer_add(faer_abs(diag[i + 1]),
                                            faer_abs(diag[i + 2])))))

\* lines 42-51: for i in start..end, a negligible offdiag[i] is set to zero
qr_deflate_scan(diag, offdiag, start, end) ==
    [i \in 1 .. Len(offdiag) |->
        IF i - 1 >= start /\ i - 1 < end /\ qr_negligible(diag, offdiag, i - 1)
        THEN f64_zero(0)
        ELSE offdiag[i]]

\* lines 53-55: while end > 0 && offdiag[end - 1] == 0 { end -= 1 }
RECURSIVE qr_skip_deflated(_, _)
qr_skip_deflated(offdiag, end) ==
    IF end > 0 /\ f64_is_zero(offdiag[end]) THEN qr_skip_deflated(offdiag, end - 1)
    ELSE end

\* lines 63-66: start = end - 1; while start > 0 && offdiag[start - 1] != 0
RECURSIVE qr_block_start(_, _)
qr_block_start(offdiag, start) ==
    IF start > 0 /\ f64_ne(offdiag[start], f64_zero(0))
    THEN qr_block_start(offdiag, start - 1)
    ELSE start

\* lines 70-87: the Wilkinson shift mu
qr_wilkinson_shift(diag, offdiag, end) ==
    LET td == diag[end]
        e == offdiag[end]
        mu == diag[end + 1]
        e2 == faer_abs2(e)
        root == faer_sqrt(faer_add(faer_abs2(td), faer_abs2(e)))
        h == IF f64_lt(f64_zero(0), td) THEN root ELSE faer_neg(root)
    IN  IF f64_is_zero(td) THEN faer_sub(mu, faer_abs(e))
        ELSE IF f64_ne(e, f64_zero(0))
        THEN IF f64_is_zero(e2)
             THEN faer_sub(mu, faer_div(e, faer_div(faer_add(td, h), e)))
             ELSE faer_sub(mu, faer_div(e2, faer_add(td, h)))
        ELSE mu

\* JacobiRotation::make_givens(p, q), as in Eigen's makeGivens on reals: t is
\* the ratio of the smaller to the larger and u is the root of 1 + t^2, with
\* the sign of the larger.
givens_u(t, larger) ==
    CHOOSE r \in {IF f64_lt(larger, f64_zero(0)) THEN faer_neg(root) ELSE root :
                     root \in {faer_sqrt(faer_add(f64_of_int(1), faer_abs2(t)))}} : TRUE
givens_wide(p, t) ==
    CHOOSE r \in {[c |-> c, s |-> faer_mul(faer_neg(t), c)] :
                     c \in {faer_inv(givens_u(t, p))}} : TRUE
givens_tall(q, t) ==
    CHOOSE r \in {[c |-> faer_mul(faer_neg(t), s), s |-> s] :
                     s \in {faer_neg(faer_inv(givens_u(t, q)))}} : TRUE
make_givens(p, q) ==
    IF f64_is_zero(q)
    THEN [c |-> IF f64_lt(p, f64_zero(0)) THEN f64_of_int(-1) ELSE f64_of_int(1),
          s |-> f64_zero(0)]
    ELSE IF f64_is_zero(p)
    THEN [c |-> f64_zero(0),
          s |-> IF f64_lt(q, f64_zero(0)) THEN f64_of_int(1) ELSE f64_of_int(-1)]
    ELSE IF f64_lt(faer_abs(q), faer_abs(p))
    THEN CHOOSE r \in {givens_wide(p, t) : t \in {faer_div(q, p)}} : TRUE
    ELSE CHOOSE r \in {givens_tall(q, t) : t \in {faer_div(p, q)}} : TRUE

\* lines 93-133: one pass of `while k < end && z != 0`, T = G' T G on rows k
\* and k + 1; st holds diag, offdiag, x, z and k, rot is the rotation, and
\* sdk, dkp1 are those of lines 96-100.
qr_rotate_to(st, rot, start, end, sdk, dkp1, new_ok) ==
    LET at == st.k + 1
        dk == st.diag[at]
        dk1 == st.diag[at + 1]
        ok == st.offdiag[at]
        more == st.k < end - 1
    IN  [diag |-> [i \in 1 .. Len(st.diag) |->
                      IF i = at
                      THEN faer_sub(
                               faer_mul(rot.c, faer_sub(faer_mul(rot.c, dk),
                                                        faer_mul(rot.s, ok))),
                               faer_mul(rot.s, faer_sub(faer_mul(rot.c, ok),
                                                        faer_mul(rot.s, dk1))))
                      ELSE IF i = at + 1
                      THEN faer_add(faer_mul(rot.s, sdk), faer_mul(rot.c, dkp1))
                      ELSE st.diag[i]],
         offdiag |-> [i \in 1 .. Len(st.offdiag) |->
                         IF i = at THEN new_ok
                         ELSE IF i = at - 1 /\ st.k > start
                         THEN faer_sub(faer_mul(rot.c, st.offdiag[i]),
                                       faer_mul(rot.s, st.z))
                         ELSE IF i = at + 1 /\ more
                         THEN faer_mul(rot.c, st.offdiag[i])
                         ELSE st.offdiag[i]],
         x |-> new_ok,
         z |-> IF more THEN faer_mul(faer_neg(rot.s), st.offdiag[at + 1])
               ELSE st.z,
         k |-> st.k + 1]
qr_rotate_with(st, rot, start, end, sdk, dkp1) ==
    CHOOSE r \in
        {qr_rotate_to(st, rot, start, end, sdk, dkp1, new_ok) :
            new_ok \in {faer_sub(faer_mul(rot.c, sdk), faer_mul(rot.s, dkp1))}} : TRUE
qr_rotate_by(st, rot, start, end) ==
    CHOOSE r \in
        {qr_rotate_with(st, rot, start, end, sdk, dkp1) :
            sdk \in {faer_add(faer_mul(rot.s, st.diag[st.k + 1]),
                              faer_mul(rot.c, st.offdiag[st.k + 1]))},
            dkp1 \in {faer_add(faer_mul(rot.s, st.offdiag[st.k + 1]),
                               faer_mul(rot.c, st.diag[st.k + 2]))}} : TRUE
qr_rotate(st, start, end) ==
    CHOOSE r \in {qr_rotate_by(st, rot, start, end) :
                      rot \in {make_givens(st.x, st.z)}} : TRUE

\* lines 92-133: the loop `while k < end && z != 0`
RECURSIVE qr_chase(_, _, _)
qr_chase(st, start, end) ==
    IF st.k < end /\ f64_ne(st.z, f64_zero(0))
    THEN CHOOSE r \in {qr_chase(next, start, end) :
                           next \in {qr_rotate(st, start, end)}} : TRUE
    ELSE st

\* lines 68-135: one implicit QR sweep over rows start..end, with the shift.
\* The rotations are also applied to columns k and k + 1 of u (lines 125-131):
\* u stays orthogonal and its column i stays the vector that goes with diag[i].
qr_sweep_from(diag, offdiag, start, end, mu) ==
    CHOOSE r \in {qr_chase(st, start, end) :
                     st \in {[diag |-> diag, offdiag |-> offdiag,
                              x |-> faer_sub(diag[start + 1], mu),
                              z |-> offdiag[start + 1],
                              k |-> start]}} : TRUE
qr_sweep_block(diag, offdiag, start, end) ==
    CHOOSE r \in {qr_sweep_from(diag, offdiag, start, end, mu) :
                     mu \in {qr_wilkinson_shift(diag, offdiag, end)}} : TRUE

qr_min_idx_kept(diag, k, min_idx, min_val) == min_idx

\* lines 140-148: the index of the first smallest entry of diag[i..n]
RECURSIVE qr_min_idx(_, _, _, _)
qr_min_idx(diag, k, min_idx, min_val) ==
    IF k >= Len(diag) THEN min_idx
    ELSE IF f64_lt(diag[k + 1], min_val)
    THEN qr_min_idx(diag, k + 1, k, diag[k + 1])
    ELSE qr_min_idx(diag, k + 1, min_idx, min_val)

\* slice::swap and swap_cols, indices from 0
qr_swap(v, a, b) ==
    [i \in 1 .. Len(v) |->
        IF i = a + 1 THEN v[b + 1] ELSE IF i = b + 1 THEN v[a + 1] ELSE v[i]]

\* lines 138-155: the selection sort; the result is <<diag, u>>
RECURSIVE qr_selection_sort(_, _, _, _)
qr_selection_sort(diag, u, has_u, i) ==
    IF i + 1 >= Len(diag) THEN <<diag, u>>
    ELSE LET min_idx == qr_min_idx(diag, i + 1, i, diag[i + 1]) IN
         IF min_idx > i
         THEN qr_selection_sort(qr_swap(diag, i, min_idx),
                                IF has_u THEN qr_swap(u, min_idx, i) ELSE u,
                                has_u, i + 1)
         ELSE qr_selection_sort(diag, u, has_u, i + 1)

QrInit ==
    /\ qr_pc = "start"
    /\ \E n \in 0 .. QrMaxDim :
          /\ qr_diag \in [1 .. n -> QrDiagVals]
          /\ qr_offdiag \in [1 .. (IF n = 0 THEN 0 ELSE n - 1) -> QrOffdiagVals]
          /\ qr_has_u \in BOOLEAN
          /\ qr_u = [i \in 1 .. (IF qr_has_u THEN n ELSE 0) |-> 0]
    /\ qr_end = 0
    /\ qr_start = 0
    /\ qr_conv = << >>
    /\ IdleBut("qr")

QrOnly == Others("qr")

\* lines 21-37: return at once when n <= 1; otherwise set the indices and
\* reset u to the identity.
qr_enter ==
    /\ qr_pc = "start"
    /\ LET n == Len(qr_diag) IN
       IF n <= 1
       THEN /\ qr_pc' = "done"
            /\ qr_conv' = qr_diag
            /\ UNCHANGED <<qr_u, qr_end, qr_start>>
       ELSE /\ qr_end' = n - 1
            /\ UNCHANGED qr_conv
            /\ qr_start' = 0
            /\ qr_u' = IF qr_has_u THEN [i \in 1 .. n |-> i] ELSE qr_u
            /\ qr_pc' = "deflate"
    /\ UNCHANGED <<qr_diag, qr_offdiag, qr_has_u>>
    /\ QrOnly

\* lines 41-59: the head of the loop
qr_deflate ==
    /\ qr_pc = "deflate"
    /\ IF qr_end > 0
       THEN /\ qr_offdiag' = qr_deflate_scan(qr_diag, qr_offdiag, qr_start,
                                              qr_end)
            /\ qr_end' = qr_skip_deflated(qr_offdiag', qr_end)
            /\ qr_pc' = IF qr_end' = 0 THEN "sort" ELSE "sweep"
       ELSE /\ qr_pc' = "sort"
            /\ UNCHANGED <<qr_offdiag, qr_end>>
    /\ UNCHANGED <<qr_diag, qr_has_u, qr_u, qr_start, qr_conv>>
    /\ QrOnly

\* lines 61-135: find the block and sweep it. iter, which line 61 counts and
\* nothing reads (lines 28-30), is not kept.
qr_sweep ==
    /\ qr_pc = "sweep"
    /\ qr_start' = qr_block_start(qr_offdiag, qr_end - 1)
    /\ \E swept \in {qr_sweep_block(qr_diag, qr_offdiag, qr_start', qr_end)} :
          /\ qr_diag' = swept.diag
          /\ qr_offdiag' = swept.offdiag
    /\ qr_pc' = "deflate"
    /\ UNCHANGED <<qr_has_u, qr_u, qr_end, qr_conv>>
    /\ QrOnly

\* lines 138-155
qr_sort ==
    /\ qr_pc = "sort"
    /\ LET sorted == qr_selection_sort(qr_diag, qr_u, qr_has_u, 0) IN
          /\ qr_diag' = sorted[1]
          /\ qr_u' = sorted[2]
    /\ qr_conv' = qr_diag
    /\ qr_pc' = "done"
    /\ UNCHANGED <<qr_offdiag, qr_has_u, qr_end, qr_start>>
    /\ QrOnly

QrNext ==
    \/ qr_enter
    \/ qr_deflate
    \/ qr_sweep
    \/ qr_sort

SpecQr == QrInit /\ [][QrNext]_vars

\* The loop is not interrupted: a step that can be taken is taken.
SpecQrFair == QrInit /\ [][QrNext]_vars /\ WF_vars(QrNext)

\* C6: the algorithm stops after a bounded number of sweeps, whatever the
\* entries: every call returns.
C6_AlwaysReturns == <>(qr_pc = "done")

\* What holds instead: a call whose entries are all finite returns.
qr_all_finite ==
    /\ \A i \in 1 .. Len(qr_diag) : ~f64_is_nan(qr_diag[i])
    /\ \A i \in 1 .. Len(qr_offdiag) : ~f64_is_nan(qr_offdiag[i])
QrFiniteReturns == qr_all_finite ~> (qr_pc = "done")

\* How many entries of a sequence equal x.
qr_count(v, x) == Cardinality({i \in 1 .. Len(v) : v[i] = x})

\* C12: on return no entry of diag is smaller than an entry before it; diag
\* holds the converged values, each as often as before; and when the sort ran
\* with u, column i of u is the column that stood with the value now in
\* diag[i], no column twice.
C12_SortedAndPaired ==
    qr_pc = "done" =>
        /\ \A i, j \in 1 .. Len(qr_diag) :
               i < j => ~f64_lt(qr_diag[j], qr_diag[i])
        /\ Len(qr_diag) = Len(qr_conv)
        /\ \A i \in 1 .. Len(qr_conv) :
               qr_count(qr_diag, qr_conv[i]) = qr_count(qr_conv, qr_conv[i])
        /\ (qr_has_u /\ Len(qr_diag) >= 2) =>
               /\ \A i \in 1 .. Len(qr_diag) :
                      /\ qr_u[i] \in 1 .. Len(qr_diag)
                      /\ qr_conv[qr_u[i]] = qr_diag[i]
               /\ \A i, j \in 1 .. Len(qr_diag) :
                      i # j => qr_u[i] # qr_u[j]

\* A run on finite entries that swept, then exchanged eigenvalues and the
\* columns of u with them.
C12_Witness ==
    /\ qr_pc = "done"
    /\ qr_has_u
    /\ Len(qr_diag) >= 3
    /\ \E i \in 1 .. Len(qr_diag) : qr_diag[i] \notin QrDiagVals
    /\ \A i \in 1 .. Len(qr_diag) : ~f64_is_nan(qr_diag[i])
    /\ qr_conv # qr_diag
    /\ \E i \in 1 .. Len(qr_diag) : qr_u[i] # i

\* The columns of u are those of the identity, each once, in some order (the
\* rotations of a sweep, which keep u orthogonal, are not followed); 0 is a
\* column as the caller left it.
qr_u_is_orthogonal ==
    /\ \A i \in 1 .. Len(qr_u) : qr_u[i] \in 1 .. Len(qr_u)
    /\ \A i, j \in 1 .. Len(qr_u) : i # j => qr_u[i] # qr_u[j]

\* C29: when u is supplied, the u returned is orthogonal for every n >= 0,
\* n <= 1 included: u is reset to the identity before anything else.
C29_ReturnsOrthogonalU ==
    (qr_pc = "done" /\ qr_has_u) => qr_u_is_orthogonal

\* What holds instead: u is orthogonal on return from n = 0 and from n >= 2.
QrOrthogonalButForOne ==
    (qr_pc = "done" /\ qr_has_u /\ Len(qr_diag) # 1) => qr_u_is_orthogonal

-----------------------------------------------------------------------------
(* The Jacobi SVD of a small square matrix *)

\* The matrices given are diagonal (with a zero first or last column when one
\* is skipped), for which the sweeps of lines 220-266 find no entry to rotate:
\* the singular values are the magnitudes of the diagonal.
JacMaxDim == 4
JacMaxVal == 2
JacDiagVals == (-1) .. JacMaxVal
JacSkips == {"None", "First", "Last"}

jac_swap_lost(v, a, b) ==
    [i \in 1 .. Len(v) |-> IF i = a + 1 THEN v[b + 1] ELSE v[i]]

\* slice swap and swap_cols, indices from 0
jac_swap(v, a, b) ==
    [i \in 1 .. Len(v) |->
        IF i = a + 1 THEN v[b + 1] ELSE IF i = b + 1 THEN v[a + 1] ELSE v[i]]

\* lines 298-308: <<largest_elem, largest_pos>> over the rows i..n of the view
RECURSIVE jac_largest(_, _, _, _, _, _)
jac_largest(diag, start, n, j, largest_elem, largest_pos) ==
    IF j >= n THEN <<largest_elem, largest_pos>>
    ELSE LET mjj == diag[start + j + 1] IN
         IF mjj > largest_elem
         THEN jac_largest(diag, start, n, j + 1, mjj, j)
         ELSE jac_largest(diag, start, n, j + 1, largest_elem, largest_pos)

JacInit ==
    /\ jac_pc = "start"
    /\ jac_skip \in JacSkips
    /\ \E n \in 0 .. JacMaxDim :
          /\ jac_diag \in [1 .. n -> JacDiagVals]
          /\ jac_skip # "None" => n >= 1
          /\ jac_skip = "First" => jac_diag[1] = 0
          /\ jac_skip = "Last" => jac_diag[n] = 0
          /\ jac_has_u \in BOOLEAN
          /\ jac_has_v \in BOOLEAN
          /\ jac_u = [i \in 1 .. (IF jac_has_u THEN n ELSE 0) |-> 0]
          /\ jac_v = [i \in 1 .. (IF jac_has_v THEN n ELSE 0) |-> 0]
    /\ jac_start = 0
    /\ jac_new_n = 0
    /\ jac_i = 0
    /\ jac_nnz_count = 0
    /\ jac_ret = 0
    /\ jac_in = jac_diag
    /\ IdleBut("jac")

JacOnly == Others("jac")

\* lines 159-208: u and v are set to the identity; with Skip::First the first
\* column of v is zeroed and the identity is written to the rows and columns
\* after it.
jac_init ==
    /\ jac_pc = "start"
    /\ LET n == Len(jac_diag) IN
          /\ jac_u' = IF jac_has_u THEN [j \in 1 .. n |-> j] ELSE jac_u
          /\ jac_v' = IF ~jac_has_v THEN jac_v
                      ELSE IF jac_skip = "First" THEN [j \in 1 .. n |-> j - 1]
                      ELSE [j \in 1 .. n |-> j]
    /\ jac_pc' = "sweep"
    /\ UNCHANGED <<jac_in, jac_skip, jac_diag, jac_has_u, jac_has_v, jac_start,
                   jac_new_n, jac_i, jac_nnz_count, jac_ret>>
    /\ JacOnly

\* lines 210-266: no off-diagonal entry exceeds the threshold, so the first
\* sweep rotates nothing and the loop ends.
jac_sweep ==
    /\ jac_pc = "sweep"
    /\ jac_pc' = "positive"
    /\ UNCHANGED <<jac_in, jac_skip, jac_diag, jac_has_u, jac_u, jac_has_v, jac_v,
                   jac_start, jac_new_n, jac_i,
                   jac_nnz_count, jac_ret>>
    /\ JacOnly

\* lines 268-279: make the diagonal elements positive
jac_make_positive ==
    /\ jac_pc = "positive"
    /\ jac_diag' = [j \in 1 .. Len(jac_diag) |->
                       IF jac_diag[j] < 0 THEN -jac_diag[j] ELSE jac_diag[j]]
    /\ jac_u' = [j \in 1 .. Len(jac_u) |->
                    IF jac_diag[j] < 0 THEN -jac_u[j] ELSE jac_u[j]]
    /\ jac_pc' = "range"
    /\ UNCHANGED <<jac_in, jac_skip, jac_has_u, jac_has_v, jac_v, jac_start,
                   jac_new_n, jac_i, jac_nnz_count, jac_ret>>
    /\ JacOnly

\* lines 282-296: the sorted range and the views of matrix, u and v on it
jac_select_range ==
    /\ jac_pc = "range"
    /\ LET n == Len(jac_diag) IN
          /\ jac_start' = IF jac_skip = "First" THEN 1 ELSE 0
          /\ jac_new_n' = IF jac_skip = "None" THEN n ELSE n - 1
    /\ jac_nnz_count' = jac_new_n'
    /\ jac_i' = 0
    /\ jac_pc' = "sort"
    /\ UNCHANGED <<jac_in, jac_skip, jac_diag, jac_has_u, jac_u, jac_has_v, jac_v,
                   jac_ret>>
    /\ JacOnly

\* lines 297-325: one pass of the sorting loop
jac_sort_step ==
    /\ jac_pc = "sort"
    /\ jac_i < jac_new_n
    /\ LET found == jac_largest(jac_diag, jac_start, jac_new_n, jac_i, 0, jac_i)
           largest_elem == found[1]
           largest_pos == found[2]
       IN /\ jac_nnz_count' = IF largest_elem = 0 THEN jac_i ELSE jac_nnz_count
          /\ IF largest_pos > jac_i
             THEN /\ jac_diag' = jac_swap(jac_diag, jac_start + jac_i,
                                          jac_start + largest_pos)
                  /\ jac_u' = IF jac_has_u
                              THEN jac_swap(jac_u, jac_start + jac_i,
                                            jac_start + largest_pos)
                              ELSE jac_u
                  /\ jac_v' = IF jac_has_v
                              THEN jac_swap(jac_v, jac_start + jac_i,
                                            jac_start + largest_pos)
                              ELSE jac_v
             ELSE UNCHANGED <<jac_diag, jac_u, jac_v>>
    /\ jac_i' = jac_i + 1
    /\ UNCHANGED <<jac_in, jac_pc, jac_skip, jac_has_u, jac_has_v, jac_start,
                   jac_new_n, jac_ret>>
    /\ JacOnly

\* line 326
jac_return ==
    /\ jac_pc = "sort"
    /\ jac_i >= jac_new_n
    /\ jac_ret' = jac_nnz_count
    /\ jac_pc' = "done"
    /\ UNCHANGED <<jac_in, jac_skip, jac_diag, jac_has_u, jac_u, jac_has_v, jac_v,
                   jac_start, jac_new_n, jac_i,
                   jac_nnz_count>>
    /\ JacOnly

JacNext ==
    \/ jac_init
    \/ jac_sweep
    \/ jac_make_positive
    \/ jac_select_range
    \/ jac_sort_step
    \/ jac_return

SpecJac == JacInit /\ [][JacNext]_vars

\* The strictly positive diagonal entries of the sorted range.
JacPositive ==
    {j \in (jac_start + 1) .. (jac_start + jac_new_n) : jac_diag[j] > 0}

\* C7: the value returned is the number of strictly positive diagonal entries
\* of the sorted range, however many of them are zero.
C7_CountsNonzero == jac_pc = "done" => jac_ret = Cardinality(JacPositive)

\* The rows of the sorted range, from index 1.
JacRange == (jac_start + 1) .. (jac_start + jac_new_n)
\* Column j of v is the unit vector of this row of the matrix given (with
\* Skip::First v has lost its first row).
jac_v_row(j) == jac_v[j] + (IF jac_skip = "First" THEN 1 ELSE 0)

\* C11: on return the diagonal of the sorted range is non-negative and does
\* not increase; every column of U is the unit vector of the entry its
\* singular value came from, negated when that entry was negative; and in the
\* sorted range the column of V is the unit vector of that same entry.
C11_SortedAndPaired ==
    jac_pc = "done" =>
        /\ \A j \in JacRange : jac_diag[j] >= 0
        /\ \A j \in JacRange :
               (j + 1) \in JacRange => jac_diag[j] >= jac_diag[j + 1]
        /\ jac_has_u =>
               /\ \A j \in 1 .. Len(jac_in) :
                      /\ Abs(jac_u[j]) \in 1 .. Len(jac_in)
                      /\ jac_in[Abs(jac_u[j])] =
                            (IF jac_u[j] < 0 THEN -jac_diag[j] ELSE jac_diag[j])
                      /\ jac_u[j] < 0 <=> jac_in[Abs(jac_u[j])] < 0
               /\ \A i, j \in 1 .. Len(jac_in) :
                      i # j => Abs(jac_u[i]) # Abs(jac_u[j])
        /\ jac_has_v =>
               /\ \A j \in JacRange :
                      /\ jac_v_row(j) \in JacRange
                      /\ Abs(jac_in[jac_v_row(j)]) = jac_diag[j]
                      /\ jac_has_u => Abs(jac_u[j]) = jac_v_row(j)
               /\ \A i, j \in JacRange : i # j => jac_v[i] # jac_v[j]

\* A run that negated a column of U and exchanged columns of U and of V.
C11_Witness ==
    /\ jac_pc = "done"
    /\ jac_has_u /\ jac_has_v
    /\ Len(jac_in) >= 3
    /\ \E j \in JacRange : jac_u[j] < 0 /\ Abs(jac_u[j]) # j
    /\ \E j \in JacRange : jac_v_row(j) # j

-----------------------------------------------------------------------------
(* The singular value decomposition: compute_svd *)

\* Largest number of rows or columns of a run.
SvdMaxDim == 6
\* faer-svd/src/lib.rs:19
JACOBI_FALLBACK_THRESHOLD == 4
SvdScalars == {"real", "cplx"}
ComputeVectors == {"No", "Thin", "Full"}

\* The matrices given are those whose orthogonal factors are signed
\* permutations and on which every rotation of the Jacobi sweeps is a quarter
\* turn: a factor is the sequence of the signed unit vectors its columns are,
\* and a matrix of singular vectors likewise (0: a zero column).
SvdOrth(k) == { [j \in 1 .. k |-> j], [j \in 1 .. k |-> -(k + 1 - j)] }

\* The column permutations qr_in_place may return (line 88), and the inverse
\* of one.
SvdColPerms(n) ==
    { f \in [1 .. n -> 1 .. n] : \A i, j \in 1 .. n : f[i] = f[j] => i = j }
svd_perm_inverse(perm) ==
    [j \in 1 .. Len(perm) |-> CHOOSE i \in 1 .. Len(perm) : perm[i] = j]

\* lines 97-99: r is the triangle of the QR, here the diagonal `diag`, with
\* its columns permuted by the inverse of col_perm (column j of the result is
\* column col_perm_inv[j] of the triangle), as a sequence of rows.
svd_permuted_r(diag, col_perm) ==
    LET col_perm_inv == svd_perm_inverse(col_perm) IN
    [i \in 1 .. Len(diag) |->
        [j \in 1 .. Len(diag) |-> IF col_perm_inv[j] = i THEN diag[i] ELSE 0]]

\* The diagonal of the triangular factor of a QR with column pivoting: the
\* magnitudes do not increase.
SvdPivotedDiags(n) ==
    { d \in [1 .. n -> (-1) .. 1] :
        \A i \in 1 .. n - 1 : Abs(d[i]) >= Abs(d[i + 1]) }
\* The singular values bidiag_svd returns: non-negative, not increasing.
SvdSortedDiags(n) ==
    { d \in [1 .. n -> 0 .. 1] : \A i \in 1 .. n - 1 : d[i] >= d[i + 1] }

\* The columns a caller's matrix of singular vectors has (test_real_thin,
\* lines 448-463), as Mat::zeros makes them.
svd_ncols(compute, dim, size) ==
    IF compute = "No" THEN 0 ELSE IF compute = "Thin" THEN size ELSE dim
svd_zeros(ncols) == [j \in 1 .. ncols |-> 0]

\* A product q * cols of an orthogonal factor and a matrix of columns.
svd_apply(q, cols) ==
    [j \in 1 .. Len(cols) |->
        IF cols[j] = 0 THEN 0
        ELSE IF cols[j] > 0 THEN q[cols[j]] ELSE -q[-cols[j]]]
\* The same on the rows after the first (v.submatrix(1, 0, n - 1, n)).
svd_shift(x) == IF x > 0 THEN x + 1 ELSE x - 1
svd_apply_below_first(q, cols) ==
    [j \in 1 .. Len(cols) |->
        IF Abs(cols[j]) <= 1 THEN cols[j]
        ELSE IF cols[j] > 0 THEN svd_shift(q[cols[j] - 1])
        ELSE -svd_shift(q[-cols[j] - 1])]

\* jacobi.rs:297-325 with Skip::None, from pass i to the last
RECURSIVE jacobi_sort_from(_, _)
jacobi_sort_from(st, i) ==
    IF i >= Len(st.diag) THEN st
    ELSE LET found == jac_largest(st.diag, 0, Len(st.diag), i, 0, i)
             largest_pos == found[2]
         IN jacobi_sort_from(
                IF largest_pos > i
                THEN [diag |-> jac_swap(st.diag, i, largest_pos),
                      u |-> jac_swap(st.u, i, largest_pos),
                      v |-> jac_swap(st.v, i, largest_pos)]
                ELSE st,
                i + 1)

\* jacobi.rs:118-148, compute_2x2 with from_triplet (lines 21-52) and the
\* product of rotations (lines 106-116), where the rotations are quarter
\* turns: with d # 0 and t = 0, u is 0 and rot1 is (c, s) = (0, 1), with d = 0
\* it is the identity; with a zero m01 after rot1, from_triplet gives the
\* identity. `quarter` says that this is the case.
jacobi_compute_2x2(m00, m01, m10, m11) ==
    LET t == m00 + m11
        d == m10 - m01
        rot1 == IF d = 0 THEN [c |-> 1, s |-> 0] ELSE [c |-> 0, s |-> 1]
        r01 == m01 * rot1.c + m11 * rot1.s
        j_right == [c |-> 1, s |-> 0]
    IN [left |-> [c |-> rot1.c * j_right.c - rot1.s * (-j_right.s),
                  s |-> rot1.c * (-j_right.s) + rot1.s * j_right.c],
        right |-> j_right,
        quarter |-> (d = 0 \/ t = 0) /\ r01 = 0]

\* jacobi.rs:233-251: the rotation of the pair p > q (counted from 1). The
\* rows p and q of the matrix and the columns p and q of u take j_left, the
\* columns p and q of the matrix and of v take j_right.
jacobi_rotate(st, p, q) ==
    LET n == Len(st.m)
        m == st.m
        rt == jacobi_compute_2x2(m[p][p], m[p][q], m[q][p], m[q][q])
        jl == rt.left
        jr == rt.right
        m1 == [i \in 1 .. n |->
                 IF i = p THEN [j \in 1 .. n |-> jl.c * m[p][j] + jl.s * m[q][j]]
                 ELSE IF i = q
                 THEN [j \in 1 .. n |-> (-jl.s) * m[p][j] + jl.c * m[q][j]]
                 ELSE m[i]]
        m2 == [i \in 1 .. n |->
                 [j \in 1 .. n |->
                    IF j = p THEN jr.c * m1[i][p] - jr.s * m1[i][q]
                    ELSE IF j = q THEN jr.s * m1[i][p] + jr.c * m1[i][q]
                    ELSE m1[i][j]]]
    IN [m |-> m2,
        u |-> [j \in 1 .. n |->
                 IF j = p THEN jl.c * st.u[p] + jl.s * st.u[q]
                 ELSE IF j = q THEN (-jl.s) * st.u[p] + jl.c * st.u[q]
                 ELSE st.u[j]],
        v |-> [j \in 1 .. n |->
                 IF j = p THEN jr.c * st.v[p] - jr.s * st.v[q]
                 ELSE IF j = q THEN jr.s * st.v[p] + jr.c * st.v[q]
                 ELSE st.v[j]],
        failed |-> TRUE,
        quarter |-> st.quarter /\ rt.quarter]

\* jacobi.rs:224-259: one sweep over the pairs p > q, from the pair (p, q)
\* on; an entry of the matrices given is above the threshold when it is not
\* zero.
RECURSIVE jacobi_sweep_from(_, _, _)
jacobi_sweep_from(st, p, q) ==
    IF p > Len(st.m) \/ ~st.quarter THEN st
    ELSE IF q >= p THEN jacobi_sweep_from(st, p + 1, 1)
    ELSE IF st.m[p][q] # 0 \/ st.m[q][p] # 0
    THEN CHOOSE r \in {jacobi_sweep_from(next, p, q + 1) :
                          next \in {jacobi_rotate(st, p, q)}} : TRUE
    ELSE jacobi_sweep_from(st, p, q + 1)

\* jacobi.rs:222-263: sweeps until one rotates nothing
RECURSIVE jacobi_sweeps(_)
jacobi_sweeps(st) ==
    CHOOSE r \in {IF swept.failed /\ swept.quarter
                  THEN jacobi_sweeps(swept) ELSE swept :
                     swept \in {jacobi_sweep_from([st EXCEPT !.failed = FALSE],
                                                  2, 1)}} : TRUE

\* jacobi.rs:151-327 with Skip::None: u and v start as the identity, the
\* sweeps make the matrix a diagonal, the negative entries are made positive,
\* the values sorted.
jacobi_sorted(swept) ==
    LET n == Len(swept.m)
        sorted == jacobi_sort_from(
            [diag |-> [j \in 1 .. n |-> Abs(swept.m[j][j])],
             u |-> [j \in 1 .. n |->
                      IF swept.m[j][j] < 0 THEN -swept.u[j] ELSE swept.u[j]],
             v |-> swept.v],
            0)
    IN [diag |-> sorted.diag, u |-> sorted.u, v |-> sorted.v,
        quarter |-> swept.quarter]
jacobi_svd(matrix) ==
    CHOOSE r \in {jacobi_sorted(swept) :
                     swept \in {jacobi_sweeps(
                         [m |-> matrix,
                          u |-> [j \in 1 .. Len(matrix) |-> j],
                          v |-> [j \in 1 .. Len(matrix) |-> j],
                          failed |-> FALSE,
                          quarter |-> TRUE])}} : TRUE

\* What qr_in_place may return on the matrices given, for each number n of
\* columns that goes to compute_real_svd_small: the diagonal of the triangle
\* and the column permutation.
SvdPivotedQrs ==
    [n \in 0 .. JACOBI_FALLBACK_THRESHOLD |->
        { x \in [diag : SvdPivotedDiags(n), col_perm : SvdColPerms(n)] :
            jacobi_svd(svd_permuted_r(x.diag, x.col_perm)).quarter }]

SvdInit ==
    /\ svd_pc = "start"
    /\ svd_T \in SvdScalars
    /\ svd_m \in 0 .. SvdMaxDim
    /\ svd_n \in 0 .. SvdMaxDim
    /\ svd_cu \in ComputeVectors
    /\ svd_cv \in ComputeVectors
    /\ svd_u = svd_zeros(svd_ncols(svd_cu, svd_m, Min(svd_m, svd_n)))
    /\ svd_v = svd_zeros(svd_ncols(svd_cv, svd_n, Min(svd_m, svd_n)))
    /\ svd_s = svd_zeros(Min(svd_m, svd_n))
    /\ svd_t = FALSE
    /\ svd_r = << >>
    /\ svd_q = << >>
    /\ svd_p = << >>
    /\ svd_ub = << >>
    /\ svd_vb = << >>
    /\ IdleBut("svd")

SvdOnly == Others("svd")

\* u, v, m and n of compute_real_svd_small and compute_real_svd_big, after
\* the swap of lines 62-64 and 159-161
svd_rows == IF svd_t THEN svd_n ELSE svd_m
svd_cols == IF svd_t THEN svd_m ELSE svd_n
svd_u_is_some == IF svd_t THEN svd_cv # "No" ELSE svd_cu # "No"
svd_v_is_some == IF svd_t THEN svd_cu # "No" ELSE svd_cv # "No"
svd_u_local == IF svd_t THEN svd_v ELSE svd_u
svd_v_local == IF svd_t THEN svd_u ELSE svd_v
svd_write_u(cols) ==
    IF svd_t THEN svd_v' = cols /\ UNCHANGED svd_u
    ELSE svd_u' = cols /\ UNCHANGED svd_v
svd_write_v(cols) ==
    IF svd_t THEN svd_u' = cols /\ UNCHANGED svd_v
    ELSE svd_v' = cols /\ UNCHANGED svd_u
svd_write_u_v(ucols, vcols) ==
    IF svd_t THEN svd_v' = ucols /\ svd_u' = vcols
    ELSE svd_u' = ucols /\ svd_v' = vcols

\* lines 295-320: a real matrix goes to the Jacobi or the bidiagonal kernel
compute_svd_real ==
    /\ svd_pc = "start"
    /\ svd_T = "real"
    /\ svd_pc' = IF Min(svd_m, svd_n) <= JACOBI_FALLBACK_THRESHOLD
                 THEN "small" ELSE "big"
    /\ UNCHANGED <<svd_T, svd_m, svd_n, svd_cu, svd_cv, svd_u, svd_v, svd_s,
                   svd_t, svd_r, svd_q, svd_p, svd_ub, svd_vb>>
    /\ SvdOnly

\* lines 321-322: todo!
compute_svd_complex ==
    /\ svd_pc = "start"
    /\ svd_T = "cplx"
    /\ svd_pc' = "panic"
    /\ UNCHANGED <<svd_T, svd_m, svd_n, svd_cu, svd_cv, svd_u, svd_v, svd_s,
                   svd_t, svd_r, svd_q, svd_p, svd_ub, svd_vb>>
    /\ SvdOnly

\* lines 50-100: the transposition, the early return, the QR factorization
\* with column pivoting (q the product of its reflections, r the triangle
\* with its columns permuted back).
compute_real_svd_small_qr ==
    /\ svd_pc = "small"
    /\ svd_t' = (svd_n > svd_m)
    /\ LET m == Max(svd_m, svd_n)
           n == Min(svd_m, svd_n)
       IN IF n = 0
          THEN /\ svd_pc' = "done"
               /\ UNCHANGED <<svd_r, svd_q>>
          ELSE /\ svd_pc' = "small_jacobi"
               /\ \E x \in SvdPivotedQrs[n] :
                      svd_r' = svd_permuted_r(x.diag, x.col_perm)
               /\ svd_q' \in SvdOrth(m)
    /\ UNCHANGED <<svd_T, svd_m, svd_n, svd_cu, svd_cv, svd_u, svd_v, svd_s,
                   svd_p, svd_ub, svd_vb>>
    /\ SvdOnly

\* lines 103-110: jacobi_svd on r, the leading n columns of u, and v
compute_real_svd_small_jacobi ==
    /\ svd_pc = "small_jacobi"
    /\ LET n == svd_cols
           j == jacobi_svd(svd_r)
           u == svd_u_local
           v == svd_v_local
       IN /\ svd_r' = [i \in 1 .. n |->
                         [k \in 1 .. n |-> IF i = k THEN j.diag[i] ELSE 0]]
          /\ svd_write_u_v(
                 IF svd_u_is_some
                 THEN [c \in 1 .. Len(u) |-> IF c <= n THEN j.u[c] ELSE u[c]]
                 ELSE u,
                 IF svd_v_is_some THEN j.v ELSE v)
    /\ svd_pc' = "small_u"
    /\ UNCHANGED <<svd_T, svd_m, svd_n, svd_cu, svd_cv, svd_s, svd_t, svd_q,
                   svd_p, svd_ub, svd_vb>>
    /\ SvdOnly

\* lines 113-133: the rest of u, q applied to it, s
compute_real_svd_small_u ==
    /\ svd_pc = "small_u"
    /\ LET m == svd_rows
           n == svd_cols
           u == svd_u_local
           ncols == Len(u)
       IN IF svd_u_is_some
          THEN svd_write_u(svd_apply(svd_q,
                   [c \in 1 .. ncols |->
                       IF c <= n THEN u[c]
                       ELSE IF ncols = m THEN c ELSE 0]))
          ELSE UNCHANGED <<svd_u, svd_v>>
    /\ svd_s' = [i \in 1 .. Len(svd_r) |-> svd_r[i][i]]
    /\ svd_pc' = "done"
    /\ UNCHANGED <<svd_T, svd_m, svd_n, svd_cu, svd_cv, svd_t, svd_r, svd_q,
                   svd_p, svd_ub, svd_vb>>
    /\ SvdOnly

\* lines 147-241: the transposition, the early return, the bidiagonalization
\* (q and p the products of its left and right reflections), bidiag_svd, s
compute_real_svd_big_bidiag ==
    /\ svd_pc = "big"
    /\ svd_t' = (svd_n > svd_m)
    /\ LET m == Max(svd_m, svd_n)
           n == Min(svd_m, svd_n)
       IN IF n = 0
          THEN /\ svd_pc' = "done"
               /\ UNCHANGED <<svd_r, svd_q, svd_p, svd_ub, svd_vb, svd_s>>
          ELSE /\ svd_pc' = "big_u"
               /\ svd_q' \in SvdOrth(m)
               /\ svd_p' \in SvdOrth(n - 1)
               /\ svd_r' \in SvdSortedDiags(n)
               /\ svd_ub' \in SvdOrth(n)
               /\ svd_vb' \in SvdOrth(n)
               /\ svd_s' = svd_r'
    /\ UNCHANGED <<svd_T, svd_m, svd_n, svd_cu, svd_cv, svd_u, svd_v>>
    /\ SvdOnly

\* lines 243-265
compute_real_svd_big_u ==
    /\ svd_pc = "big_u"
    /\ LET n == svd_cols
           ncols == Len(svd_u_local)
       IN IF svd_u_is_some
          THEN svd_write_u(svd_apply(svd_q,
                   [c \in 1 .. ncols |-> IF c <= n THEN svd_vb[c] ELSE c]))
          ELSE UNCHANGED <<svd_u, svd_v>>
    /\ svd_pc' = "big_v"
    /\ UNCHANGED <<svd_T, svd_m, svd_n, svd_cu, svd_cv, svd_s, svd_t, svd_r,
                   svd_q, svd_p, svd_ub, svd_vb>>
    /\ SvdOnly

\* lines 266-282
compute_real_svd_big_v ==
    /\ svd_pc = "big_v"
    /\ IF svd_v_is_some
       THEN svd_write_v(svd_apply_below_first(svd_p, svd_ub))
       ELSE UNCHANGED <<svd_u, svd_v>>
    /\ svd_pc' = "done"
    /\ UNCHANGED <<svd_T, svd_m, svd_n, svd_cu, svd_cv, svd_s, svd_t, svd_r,
                   svd_q, svd_p, svd_ub, svd_vb>>
    /\ SvdOnly

SvdNext ==
    \/ compute_svd_real
    \/ compute_svd_complex
    \/ compute_real_svd_small_qr
    \/ compute_real_svd_small_jacobi
    \/ compute_real_svd_small_u
    \/ compute_real_svd_big_bidiag
    \/ compute_real_svd_big_u
    \/ compute_real_svd_big_v

SpecSvd == SvdInit /\ [][SvdNext]_vars

\* The columns are unit vectors, no two of them along the same axis.
SvdOrthonormal(cols) ==
    \A i \in 1 .. Len(cols) :
        /\ cols[i] # 0
        /\ \A j \in 1 .. Len(cols) : i # j => Abs(cols[i]) # Abs(cols[j])

\* C8: when compute_svd returns, the U and the V that were asked for have
\* orthonormal columns, for every shape, those with a zero dimension included.
C8_OrthonormalColumns ==
    svd_pc = "done" =>
        /\ svd_cu # "No" => SvdOrthonormal(svd_u)
        /\ svd_cv # "No" => SvdOrthonormal(svd_v)

\* C15: compute_svd on a matrix of complex scalars computes the decomposition
\* and returns, as it does on real scalars: it does not panic.
C15_ComplexSupported == svd_pc # "panic"

\* The shapes C8 fails on: one dimension is zero and the full matrix of the
\* other side is asked for.
SvdEmptyWithFull ==
    \/ svd_n = 0 /\ svd_m > 0 /\ svd_cu = "Full"
    \/ svd_m = 0 /\ svd_n > 0 /\ svd_cv = "Full"

\* Outside those shapes the matrices asked for are orthonormal.
SvdOrthonormalElsewhere ==
    (svd_pc = "done" /\ ~SvdEmptyWithFull) =>
        /\ svd_cu # "No" => SvdOrthonormal(svd_u)
        /\ svd_cv # "No" => SvdOrthonormal(svd_v)

-----------------------------------------------------------------------------
(* join_raw: two tasks, forked or one after the other *)

\* Largest thread count a caller gives.
JoinMaxThreads == 8
JoinParVals == {ParNone} \cup {Rayon(k) : k \in 0 .. JoinMaxThreads}

\* thread.rs:14-19: the match arms that call op_a and then op_b
join_is_sequential(par) == par.kind = "None" \/ par.n = 1

join_child_parallelism_floor(par) ==
    IF join_is_sequential(par) THEN ParNone
    ELSE LET n_threads == IF par.n > 0 THEN par.n ELSE AmbientThreads
         IN Rayon(n_threads \div 2)

\* thread.rs:15-26: the parallelism the two tasks are called with
join_child_parallelism(par) ==
    IF join_is_sequential(par) THEN ParNone
    ELSE LET n_threads == IF par.n > 0 THEN par.n ELSE AmbientThreads
         IN Rayon(n_threads - n_threads \div 2)

JoinInit ==
    /\ join_pc = "start"
    /\ join_par \in JoinParVals
    /\ join_seq = TRUE
    /\ join_handed = ParNone
    /\ join_a = JoinTask0
    /\ join_b = JoinTask0
    /\ IdleBut("join")

JoinOnly == Others("join")

\* thread.rs:32-38 and 14-26: the match on parallelism
join_raw ==
    /\ join_pc = "start"
    /\ join_seq' = join_is_sequential(join_par)
    /\ join_handed' = join_child_parallelism(join_par)
    /\ join_pc' = "run"
    /\ UNCHANGED <<join_par, join_a, join_b>>
    /\ JoinOnly

\* op_a is called: first in the tuple of lines 15 and 19, and by the calling
\* thread in rayon::join (line 27); op_a.take().unwrap() is line 35
join_call_a ==
    /\ join_pc = "run"
    /\ join_a.state = "pending"
    /\ join_a' = [state |-> "running", runs |-> join_a.runs + 1,
                  thread |-> "caller"]
    /\ UNCHANGED <<join_pc, join_par, join_seq, join_handed, join_b>>
    /\ JoinOnly

join_finish_a ==
    /\ join_pc = "run"
    /\ join_a.state = "running"
    /\ join_a' = [join_a EXCEPT !.state = "done"]
    /\ UNCHANGED <<join_pc, join_par, join_seq, join_handed, join_b>>
    /\ JoinOnly

\* op_b is called: second in the tuple of lines 15 and 19; in rayon::join
\* (line 27) by a worker that took it, or by the calling thread once op_a
\* has returned; op_b.take().unwrap() is line 36
join_call_b ==
    /\ join_pc = "run"
    /\ join_b.state = "pending"
    /\ \E th \in {"caller", "worker"} :
          /\ th = "caller" => join_a.state = "done"
          /\ th = "worker" => ~join_seq
          /\ join_b' = [state |-> "running", runs |-> join_b.runs + 1,
                        thread |-> th]
    /\ UNCHANGED <<join_pc, join_par, join_seq, join_handed, join_a>>
    /\ JoinOnly

join_finish_b ==
    /\ join_pc = "run"
    /\ join_b.state = "running"
    /\ join_b' = [join_b EXCEPT !.state = "done"]
    /\ UNCHANGED <<join_pc, join_par, join_seq, join_handed, join_a>>
    /\ JoinOnly

\* the tuple is complete, or rayon::join returns
join_return ==
    /\ join_pc = "run"
    /\ join_a.state = "done"
    /\ join_b.state = "done"
    /\ join_pc' = "done"
    /\ UNCHANGED <<join_par, join_seq, join_handed, join_a, join_b>>
    /\ JoinOnly

JoinNext ==
    \/ join_raw
    \/ join_call_a
    \/ join_finish_a
    \/ join_call_b
    \/ join_finish_b
    \/ join_return

SpecJoin == JoinInit /\ [][JoinNext]_vars

\* The effective budget t of a forking call.
join_effective(par) == IF par.n > 0 THEN par.n ELSE AmbientThreads

\* C13: neither task runs twice and on return both have run and finished; with
\* None or Rayon(1) task B starts after task A has finished, both on the
\* calling thread with Parallelism::None; otherwise both are handed
\* Rayon(t - floor(t / 2)) for the effective budget t, which is not Rayon(0).
C13_JoinRunsBothOnce ==
    /\ join_a.runs <= 1 /\ join_b.runs <= 1
    /\ join_pc = "done" =>
          /\ join_a.runs = 1 /\ join_a.state = "done"
          /\ join_b.runs = 1 /\ join_b.state = "done"
    /\ join_pc \in {"run", "done"} =>
          IF join_par = ParNone \/ join_par = Rayon(1)
          THEN /\ join_handed = ParNone
               /\ join_b.state # "pending" => join_a.state = "done"
               /\ join_a.thread \in {"none", "caller"}
               /\ join_b.thread \in {"none", "caller"}
          ELSE /\ join_handed =
                     Rayon(join_effective(join_par)
                           - join_effective(join_par) \div 2)
               /\ join_handed.n >= 1

\* A fork with an odd budget in which task B ran on another thread while task
\* A was running, and the call has returned.
C13_Witness ==
    /\ join_pc = "done"
    /\ join_par.kind = "Rayon" /\ join_par.n > 1 /\ join_par.n % 2 = 1
    /\ join_b.thread = "worker"
    /\ join_a.runs = 1 /\ join_b.runs = 1

-----------------------------------------------------------------------------
(* Eigen::new: the eigendecomposition of a complex matrix view *)

\* Largest dimension of a run, and the largest real or imaginary part.
EigMaxDim == 2
EigMaxPart == 1

\* Complex numbers with integer parts.
Cplx(re, im) == [re |-> re, im |-> im]
c_zero == Cplx(0, 0)
c_add(x, y) == Cplx(x.re + y.re, x.im + y.im)
c_mul(x, y) == Cplx(x.re * y.re - x.im * y.im, x.re * y.im + x.im * y.re)
\* math_utils::conj
c_conj(x) == Cplx(x.re, -x.im)

EigScalars == { Cplx(re, im) : re \in 0 .. EigMaxPart,
                               im \in (-EigMaxPart) .. EigMaxPart }
\* The unit factors an eigenvector may carry: 1 and i.
EigPhases == { Cplx(1, 0), Cplx(0, 1) }

\* Matrices are functions of <<row, column>>; the product of two of them.
RECURSIVE c_dot(_, _, _, _, _)
c_dot(a, b, i, j, k) ==
    IF k = 0 THEN c_zero
    ELSE c_add(c_dot(a, b, i, j, k - 1), c_mul(a[<<i, k>>], b[<<k, j>>]))
mat_mul(a, b, n) ==
    [ij \in (1 .. n) \X (1 .. n) |-> c_dot(a, b, ij[1], ij[2], n)]
mat_diag(d, n) ==
    [ij \in (1 .. n) \X (1 .. n) |-> IF ij[1] = ij[2] THEN d[ij[1]] ELSE c_zero]
mat_conj(a) == [ij \in DOMAIN a |-> c_conj(a[ij])]

\* The matrices given are diagonal in memory.
EigInit ==
    /\ eig_pc = "start"
    /\ \E n \in 1 .. EigMaxDim : eig_stored \in [1 .. n -> EigScalars]
    /\ eig_conj \in BOOLEAN
    /\ eig_U = << >>
    /\ eig_S = << >>
    /\ IdleBut("eig")

EigOnly == Others("eig")

\* solvers.rs:891-895: the view is taken apart into memory and conjugation
Eigen_new ==
    /\ eig_pc = "start"
    /\ eig_pc' = "imp"
    /\ UNCHANGED <<eig_stored, eig_conj, eig_U, eig_S>>
    /\ EigOnly

\* solvers.rs:951-968: evd_cplx on the matrix in memory. Of a diagonal matrix
\* the eigenvalues are the entries, in some order, and each eigenvector is a
\* unit vector times a unit factor.
Eigen_new_imp_evd ==
    /\ eig_pc = "imp"
    /\ LET n == Len(eig_stored) IN
       \E order \in [1 .. n -> 1 .. n], phase \in [1 .. n -> EigPhases] :
          /\ \A i, j \in 1 .. n : i # j => order[i] # order[j]
          /\ eig_S' = [j \in 1 .. n |-> eig_stored[order[j]]]
          /\ eig_U' = [ij \in (1 .. n) \X (1 .. n) |->
                          IF ij[1] = order[ij[2]] THEN phase[ij[2]]
                          ELSE c_zero]
    /\ eig_pc' = "conj"
    /\ UNCHANGED <<eig_stored, eig_conj>>
    /\ EigOnly

\* solvers.rs:970-979: U is conjugated when the view is; S is returned as is
Eigen_new_imp_conj ==
    /\ eig_pc = "conj"
    /\ eig_U' = IF eig_conj THEN mat_conj(eig_U) ELSE eig_U
    /\ eig_pc' = "done"
    /\ UNCHANGED <<eig_stored, eig_conj, eig_S>>
    /\ EigOnly

EigNext ==
    \/ Eigen_new
    \/ Eigen_new_imp_evd
    \/ Eigen_new_imp_conj

SpecEig == EigInit /\ [][EigNext]_vars

\* The matrix the view A stands for.
eig_A ==
    LET n == Len(eig_stored)
        stored == mat_diag(eig_stored, n)
    IN IF eig_conj THEN mat_conj(stored) ELSE stored

eig_AU_is_US ==
    LET n == Len(eig_stored) IN
    mat_mul(eig_A, eig_U, n) = mat_mul(eig_U, mat_diag(eig_S, n), n)

\* C14: the factors returned satisfy A * U = U * S, for conjugated views too.
C14_EigenEquation == eig_pc = "done" => eig_AU_is_US

\* For views that are not conjugated the equation holds.
EigPlainViewEquation == (eig_pc = "done" /\ ~eig_conj) => eig_AU_is_US

-----------------------------------------------------------------------------
(* The recursive triangular solve *)

\* Largest dimension of the triangular matrix (one larger one is added, past
\* the limit for column splits).
TriMaxDim == 40
\* solve.rs:679: a right-hand side of more than 64 columns is split ...
TriForkCols == 64
\* ... when the triangular matrix has at most 128 rows
TriForkMaxRows == 128
\* solve.rs:223-225
recursion_threshold == 4

TriRowVals == (0 .. TriMaxDim) \cup {TriForkMaxRows + 1}
TriColVals == {0, 1, TriForkCols, TriForkCols + 1, 2 * TriForkCols + 1,
               2 * TriForkCols + 2, 2 * TriForkCols + 3}
TriParVals == {ParNone, Rayon(0), Rayon(1), Rayon(2), Rayon(3)}

blocksize_rounded_down(n) ==
    LET base_rem == n \div 2 IN
    IF n >= 32 THEN (base_rem \div 16) * 16
    ELSE IF n >= 16 THEN (base_rem \div 8) * 8
    ELSE IF n >= 8 THEN (base_rem \div 4) * 4
    ELSE base_rem

blocksize_all_rows(n) == n

\* solve.rs:207-221
blocksize(n) ==
    LET base_rem == n \div 2 IN
    n - (IF n >= 32 THEN ((base_rem + 15) \div 16) * 16
         ELSE IF n >= 16 THEN ((base_rem + 7) \div 8) * 8
         ELSE IF n >= 8 THEN ((base_rem + 3) \div 4) * 4
         ELSE base_rem)

tri_split_cols_overlapping(c0, c1) ==
    LET k == c1 - c0 IN <<(<<c0, c0 + k \div 2 + 1>>), (<<c0 + k \div 2, c1>>)>>

\* solve.rs:680: rhs.split_at(0, k / 2), as the column ranges <<from, to>> of
\* rhs_left and rhs_right
tri_split_cols(c0, c1) ==
    LET k == c1 - c0 IN <<(<<c0, c0 + k \div 2>>), (<<c0 + k \div 2, c1>>)>>

\* A call of solve_lower_triangular_in_place_unchecked on the rows r0 .. r0 + n
\* and the columns c0 .. c1 of the right-hand side: par is its parallelism
\* argument, handed what join_raw handed to the closure it runs in, sib the
\* column ranges of the sibling tasks of the forks it runs in.
tri_call(n, r0, c0, c1, par, handed, sib) ==
    [kind |-> "solve", n |-> n, r0 |-> r0, c0 |-> c0, c1 |-> c1, par |-> par,
     handed |-> handed, sib |-> sib]
\* The matmul_with_conj of lines 716-725 on the rows r0 .. r0 + n of rhs.
tri_matmul_call(n, r0, c0, c1, par, handed, sib) ==
    [kind |-> "matmul", n |-> n, r0 |-> r0, c0 |-> c0, c1 |-> c1, par |-> par,
     handed |-> handed, sib |-> sib]

tri_forks_when_wide(call) == call.c1 - call.c0 > TriForkCols

\* solve.rs:679: if k > 64 && n <= 128
tri_forks(call) ==
    call.c1 - call.c0 > TriForkCols /\ call.n <= TriForkMaxRows

TriInit ==
    /\ tri_pc = "start"
    /\ tri_par \in TriParVals
    /\ \E n \in TriRowVals, k \in TriColVals :
          tri_stack = <<tri_call(n, 0, 0, k, tri_par, tri_par, {})>>
    /\ tri_last = TriNothing
    /\ IdleBut("tri")

TriOnly == Others("tri")

tri_top == tri_stack[1]
tri_rest == SubSeq(tri_stack, 2, Len(tri_stack))

\* solve.rs:679-688: the column split. The closures drop the parallelism
\* join_raw calls them with (`|_|`) and pass the parallelism of this call on.
tri_fork ==
    /\ tri_pc = "run"
    /\ tri_stack # << >>
    /\ tri_top.kind = "solve"
    /\ tri_forks(tri_top)
    /\ LET c == tri_top
           halves == tri_split_cols(c.c0, c.c1)
           left == halves[1]
           right == halves[2]
           budget == join_child_parallelism(c.par)
       IN /\ tri_stack' =
                <<tri_call(c.n, c.r0, left[1], left[2], c.par, budget,
                           c.sib \cup {right}),
                  tri_call(c.n, c.r0, right[1], right[2], c.par, budget,
                           c.sib \cup {left})>> \o tri_rest
          /\ tri_last' = [kind |-> "fork", n |-> c.n, c0 |-> c.c0, c1 |-> c.c1,
                          left |-> left, right |-> right, par |-> c.par,
                          handed |-> budget]
    /\ UNCHANGED <<tri_pc, tri_par>>
    /\ TriOnly

\* solve.rs:695-709: the base case
tri_base ==
    /\ tri_pc = "run"
    /\ tri_stack # << >>
    /\ tri_top.kind = "solve"
    /\ ~tri_forks(tri_top)
    /\ tri_top.n <= recursion_threshold
    /\ tri_stack' = tri_rest
    /\ tri_last' = [tri_top EXCEPT !.kind = "base"]
    /\ UNCHANGED <<tri_pc, tri_par>>
    /\ TriOnly

\* solve.rs:711-727: the row split into the top solve, the update of the
\* bottom rows, and the bottom solve
tri_split ==
    /\ tri_pc = "run"
    /\ tri_stack # << >>
    /\ tri_top.kind = "solve"
    /\ ~tri_forks(tri_top)
    /\ tri_top.n > recursion_threshold
    /\ LET c == tri_top
           bs == blocksize(c.n)
       IN /\ tri_stack' =
                <<tri_call(bs, c.r0, c.c0, c.c1, c.par, c.handed, c.sib),
                  tri_matmul_call(c.n - bs, c.r0 + bs, c.c0, c.c1, c.par,
                                  c.handed, c.sib),
                  tri_call(c.n - bs, c.r0 + bs, c.c0, c.c1, c.par, c.handed,
                           c.sib)>> \o tri_rest
          /\ tri_last' = [kind |-> "split", n |-> c.n, bs |-> bs,
                          r0 |-> c.r0, c0 |-> c.c0, c1 |-> c.c1]
    /\ UNCHANGED <<tri_pc, tri_par>>
    /\ TriOnly

\* solve.rs:716-725
tri_matmul ==
    /\ tri_pc = "run"
    /\ tri_stack # << >>
    /\ tri_top.kind = "matmul"
    /\ tri_stack' = tri_rest
    /\ tri_last' = tri_top
    /\ UNCHANGED <<tri_pc, tri_par>>
    /\ TriOnly

tri_enter ==
    /\ tri_pc = "start"
    /\ tri_pc' = "run"
    /\ UNCHANGED <<tri_par, tri_stack, tri_last>>
    /\ TriOnly

tri_return ==
    /\ tri_pc = "run"
    /\ tri_stack = << >>
    /\ tri_pc' = "done"
    /\ UNCHANGED <<tri_par, tri_stack, tri_last>>
    /\ TriOnly

TriNext ==
    \/ tri_enter
    \/ tri_fork
    \/ tri_base
    \/ tri_split
    \/ tri_matmul
    \/ tri_return

SpecTri == TriInit /\ [][TriNext]_vars

\* C16: a call made inside a forked branch runs with the budget join_raw
\* handed to that branch: every pending call, solve or product, has as many
\* threads as were handed to the branch it runs in.
C16_BranchUsesHandedBudget ==
    \A i \in 1 .. Len(tri_stack) :
        parallelism_degree(tri_stack[i].par)
            = parallelism_degree(tri_stack[i].handed)

\* The SIMD-friendly multiple for a matrix of n rows.
tri_multiple(n) ==
    IF n >= 32 THEN 16 ELSE IF n >= 16 THEN 8 ELSE IF n >= 8 THEN 4 ELSE 1

\* C17 as stated: for n > 4 the split point is floor(n / 2) rounded down to
\* the multiple.
C17_AsStated ==
    tri_last.kind = "split" =>
        tri_last.bs =
            ((tri_last.n \div 2) \div tri_multiple(tri_last.n))
                * tri_multiple(tri_last.n)

\* C17: for n > 4 the rows after the split point, n - blocksize, are
\* floor(n / 2) rounded up to the multiple (the smallest multiple that is at
\* least floor(n / 2)), and the split point is at least 1 and less than n.
C17_RemainderRoundedUp ==
    tri_last.kind = "split" =>
        LET n == tri_last.n
            rem == n - tri_last.bs
            w == tri_multiple(n)
        IN /\ n > recursion_threshold
           /\ rem % w = 0
           /\ rem >= n \div 2
           /\ rem - w < n \div 2
           /\ tri_last.bs >= 1 /\ tri_last.bs < n

\* A split of a matrix with 32 rows or more whose half is not a multiple of 16.
C17_Witness ==
    /\ tri_last.kind = "split"
    /\ tri_last.n >= 32
    /\ (tri_last.n \div 2) % 16 # 0

\* The same machine, every enabled step of which is eventually taken: the
\* recursion is run by one thread, or by rayon::join, which runs both closures.
SpecTriFair == TriInit /\ [][TriNext]_vars /\ WF_vars(TriNext)

\* C22: the column split is taken exactly when k > 64 and n <= 128; otherwise
\* the base case exactly when n <= 4; otherwise the block recursion, which
\* leaves, first to last, the top solve, the update of the bottom rows and the
\* bottom solve to run.
C22_BranchPriority ==
    /\ tri_last.kind = "fork" =>
          tri_last.c1 - tri_last.c0 > 64 /\ tri_last.n <= 128
    /\ tri_last.kind = "base" =>
          /\ ~(tri_last.c1 - tri_last.c0 > 64 /\ tri_last.n <= 128)
          /\ tri_last.n <= 4
    /\ tri_last.kind = "split" =>
          /\ ~(tri_last.c1 - tri_last.c0 > 64 /\ tri_last.n <= 128)
          /\ tri_last.n > 4
          /\ Len(tri_stack) >= 3
          /\ tri_stack[1].kind = "solve" /\ tri_stack[1].r0 = tri_last.r0
          /\ tri_stack[1].n = tri_last.bs
          /\ tri_stack[2].kind = "matmul"
          /\ tri_stack[2].r0 = tri_last.r0 + tri_last.bs
          /\ tri_stack[2].n = tri_last.n - tri_last.bs
          /\ tri_stack[3].kind = "solve"
          /\ tri_stack[3].r0 = tri_last.r0 + tri_last.bs
          /\ tri_stack[3].n = tri_last.n - tri_last.bs

\* A block recursion on a right-hand side of more than 64 columns, the
\* matrix having more than 128 rows.
C22_Witness ==
    /\ tri_last.kind = "split"
    /\ tri_last.c1 - tri_last.c0 > 64
    /\ tri_last.n > 128

TriShrinks ==
    /\ tri_last.kind = "split" =>
          /\ tri_last.n > 4
          /\ 1 <= tri_last.bs /\ tri_last.bs <= tri_last.n - 1
    /\ tri_last.kind = "fork" =>
          /\ tri_last.left[2] - tri_last.left[1] < tri_last.c1 - tri_last.c0
          /\ tri_last.right[2] - tri_last.right[1] < tri_last.c1 - tri_last.c0

\* C24: for n > 4 the split point bs has 1 <= bs <= n - 1, each half of a
\* column split has fewer columns than k, and the solve returns.
C24_Terminates == []TriShrinks /\ <>(tri_pc = "done")

\* A solve that went through a column split and a block recursion is done.
C24_Witness ==
    /\ tri_pc = "done"
    /\ tri_last.kind = "base"
    /\ tri_last.sib # {}
    /\ tri_last.r0 > 0

-----------------------------------------------------------------------------
(* Applying a sequence of block Householder transformations on the left *)

\* Largest block size and largest number of reflections of a run.
HhMaxBlock == 4
HhMaxSize == 9

hh_first_bs_full(size, block) == block

\* householder.rs:512-516: the width of the block the apply direction takes
\* first
hh_first_bs(size, block) ==
    IF size % block = 0 THEN block ELSE size % block

hh_upgrade_bs_full(block, size, j_base) == block

\* faer-evd/src/lib.rs:215, faer-svd/src/lib.rs:205 and 216: the width of the
\* block at j_base in the caller's loop over the factors
hh_upgrade_bs(block, size, j_base) == Min(block, size - j_base)

HhInit ==
    /\ hh_pc = "upgrade"
    /\ hh_j_base = 0
    /\ hh_upgraded = << >>
    /\ hh_transpose \in BOOLEAN
    /\ hh_blocksize \in 1 .. HhMaxBlock
    /\ hh_size \in 0 .. HhMaxSize
    /\ hh_j = 0
    /\ hh_bs = 0
    /\ hh_applied = << >>
    /\ IdleBut("hh")

HhOnly == Others("hh")

\* faer-evd/src/lib.rs:214-224 (size is n - 1), faer-svd/src/lib.rs:204-213
\* and 215-225: one pass of `while j_base < size`, which makes the factor of
\* the block at j_base a block factor
hh_upgrade_block ==
    /\ hh_pc = "upgrade"
    /\ hh_j_base < hh_size
    /\ LET bs == hh_upgrade_bs(hh_blocksize, hh_size, hh_j_base) IN
          /\ hh_upgraded' = Append(hh_upgraded, <<hh_j_base, bs>>)
          /\ hh_j_base' = hh_j_base + bs
    /\ UNCHANGED <<hh_pc, hh_transpose, hh_blocksize, hh_size, hh_j, hh_bs,
                   hh_applied>>
    /\ HhOnly

\* the caller's loop is over and the sequence is handed to be applied
hh_upgrade_end ==
    /\ hh_pc = "upgrade"
    /\ hh_j_base >= hh_size
    /\ hh_pc' = "start"
    /\ UNCHANGED <<hh_transpose, hh_blocksize, hh_size, hh_j, hh_bs,
                   hh_applied, hh_j_base, hh_upgraded>>
    /\ HhOnly

\* householder.rs:502-516: j = size and the width of the first block taken
hh_apply_begin ==
    /\ hh_pc = "start"
    /\ ~hh_transpose
    /\ hh_j' = hh_size
    /\ hh_bs' = hh_first_bs(hh_size, hh_blocksize)
    /\ hh_pc' = "loop"
    /\ UNCHANGED <<hh_transpose, hh_blocksize, hh_size, hh_applied>>
    /\ UNCHANGED <<hh_j_base, hh_upgraded>>
    /\ HhOnly

\* householder.rs:518-535: one pass of `while j > 0`
hh_apply_block ==
    /\ hh_pc = "loop"
    /\ ~hh_transpose
    /\ hh_j > 0
    /\ hh_j' = hh_j - hh_bs
    /\ hh_applied' = Append(hh_applied, <<hh_j', hh_bs>>)
    /\ hh_bs' = hh_blocksize
    /\ UNCHANGED <<hh_pc, hh_transpose, hh_blocksize, hh_size>>
    /\ UNCHANGED <<hh_j_base, hh_upgraded>>
    /\ HhOnly

\* householder.rs:555-563: j = 0
hh_transpose_begin ==
    /\ hh_pc = "start"
    /\ hh_transpose
    /\ hh_j' = 0
    /\ hh_pc' = "loop"
    /\ UNCHANGED <<hh_transpose, hh_blocksize, hh_size, hh_bs, hh_applied>>
    /\ UNCHANGED <<hh_j_base, hh_upgraded>>
    /\ HhOnly

\* householder.rs:564-579: one pass of `while j < size`
hh_transpose_block ==
    /\ hh_pc = "loop"
    /\ hh_transpose
    /\ hh_j < hh_size
    /\ hh_bs' = Min(hh_blocksize, hh_size - hh_j)
    /\ hh_applied' = Append(hh_applied, <<hh_j, hh_bs'>>)
    /\ hh_j' = hh_j + hh_bs'
    /\ UNCHANGED <<hh_pc, hh_transpose, hh_blocksize, hh_size>>
    /\ UNCHANGED <<hh_j_base, hh_upgraded>>
    /\ HhOnly

\* the loop condition fails
hh_return ==
    /\ hh_pc = "loop"
    /\ IF hh_transpose THEN hh_j >= hh_size ELSE hh_j <= 0
    /\ hh_pc' = "done"
    /\ UNCHANGED <<hh_transpose, hh_blocksize, hh_size, hh_j, hh_bs,
                   hh_applied, hh_j_base, hh_upgraded>>
    /\ HhOnly

HhNext ==
    \/ hh_upgrade_block
    \/ hh_upgrade_end
    \/ hh_apply_begin
    \/ hh_apply_block
    \/ hh_transpose_begin
    \/ hh_transpose_block
    \/ hh_return

SpecHh == HhInit /\ [][HhNext]_vars

\* The blocks of the sequence from the first to the last: each as wide as the
\* block size but the last, which holds what is left.
hh_block_count == (hh_size + hh_blocksize - 1) \div hh_blocksize
hh_blocks ==
    [i \in 1 .. hh_block_count |->
        <<(i - 1) * hh_blocksize,
          Min(hh_blocksize, hh_size - (i - 1) * hh_blocksize)>>]
hh_reversed(seq) == [i \in 1 .. Len(seq) |-> seq[Len(seq) + 1 - i]]

\* C18 as stated: the apply direction takes the block at column offset 0
\* first and walks toward the last block, as the transposed direction does.
C18_AsStated ==
    hh_pc = "done" => hh_applied = hh_blocks

\* C18: the apply direction takes the last block first (the one that may be
\* narrower than the block size) and walks down to the block at column offset
\* 0; the transposed direction takes the block at offset 0 first and walks to
\* the last block. Both apply every block once.
C18_ApplyWalksBackward ==
    hh_pc = "done" =>
        hh_applied = (IF hh_transpose THEN hh_blocks
                      ELSE hh_reversed(hh_blocks))

\* An apply run over three blocks or more, the last of them narrower.
C18_Witness ==
    /\ hh_pc = "done"
    /\ ~hh_transpose
    /\ Len(hh_applied) >= 3
    /\ hh_size % hh_blocksize # 0
    /\ hh_applied[1][1] > 0

\* The blocks of a traversal, whatever their order.
hh_block_set(seq) == {seq[i] : i \in 1 .. Len(seq)}

\* Each block of the traversal was visited once, and the blocks are a
\* partition of the columns [0, size): every block starts at a multiple of the
\* block size and is as wide as it, but for the one that ends at size when
\* size is no multiple, which is size mod blocksize wide; every column is in
\* one block.
hh_partitions(seq) ==
    /\ Cardinality(hh_block_set(seq)) = Len(seq)
    /\ \A b \in hh_block_set(seq) :
           /\ b[1] % hh_blocksize = 0
           /\ b[2] >= 1
           /\ \/ b[2] = hh_blocksize
              \/ /\ b[1] + b[2] = hh_size
                 /\ b[2] = hh_size % hh_blocksize
    /\ \A c \in 0 .. hh_size - 1 :
           Cardinality({b \in hh_block_set(seq) :
                           b[1] <= c /\ c < b[1] + b[2]}) = 1
    /\ \A b \in hh_block_set(seq) : b[1] + b[2] <= hh_size

\* C30: for every size >= 0 and blocksize >= 1, the backward traversal and the
\* forward traversal visit, each block once, the blocks of one partition of
\* the columns [0, size) (starts at the multiples of the block size, the last
\* block alone possibly shorter, size mod blocksize wide), and that partition
\* is the one the caller walked when it made the factors block factors.
C30_OnePartition ==
    /\ hh_pc \in {"start", "loop", "done"} => hh_partitions(hh_upgraded)
    /\ hh_pc = "done" =>
           /\ hh_partitions(hh_applied)
           /\ hh_block_set(hh_applied) = hh_block_set(hh_upgraded)

\* A forward run and a backward run done over three blocks or more, the last
\* of them shorter.
C30_Witness ==
    /\ hh_pc = "done"
    /\ Len(hh_upgraded) >= 3
    /\ Len(hh_applied) = Len(hh_upgraded)
    /\ hh_size % hh_blocksize # 0
    /\ hh_upgraded[Len(hh_upgraded)][2] < hh_blocksize

-----------------------------------------------------------------------------
(* matmul: the parallel loop over the elements of dst *)

\* Largest number of rows or columns of dst, and largest thread count.
MmMaxDim == 3
MmMaxThreads == 4

\* usize::div_ceil
div_ceil(a, b) == (a + b - 1) \div b

\* matmul/mod.rs:761-762
mm_task_count == mm_m * mm_n
mm_task_per_thread == div_ceil(mm_task_count, mm_nthreads)
\* matmul/mod.rs:768
mm_task_idx(tid) == tid * mm_task_per_thread

\* matmul/mod.rs:769: Ord::min(task_per_thread, task_count - task_idx) where
\* the subtraction has wrapped around when task_idx > task_count: the
\* difference is then above any task_per_thread.
mm_ntasks(tid) ==
    IF mm_task_count >= mm_task_idx(tid)
    THEN Min(mm_task_per_thread, mm_task_count - mm_task_idx(tid))
    ELSE mm_task_per_thread

\* matmul/mod.rs:772-773: the flat indices of the closure of tid
mm_indices(tid) == mm_task_idx(tid) .. (mm_task_idx(tid) + mm_ntasks(tid) - 1)
\* matmul/mod.rs:775: dst.ncols().check(ij / m)
mm_in_dst(ij) == ij \div mm_m < mm_n

MmInit ==
    /\ mm_pc = "start"
    /\ mm_m \in 0 .. MmMaxDim
    /\ mm_n \in 0 .. MmMaxDim
    /\ mm_nthreads \in 1 .. MmMaxThreads
    /\ mm_checked \in BOOLEAN
    /\ mm_ran = {}
    /\ mm_writes = [ij \in 1 .. mm_m * mm_n |-> 0]
    /\ mm_underflow = FALSE
    /\ mm_outside = FALSE
    /\ IdleBut("mm")

MmOnly == Others("mm")

\* matmul/mod.rs:755-766: the sizes, and the parallel iterator is started
mm_par_iter ==
    /\ mm_pc = "start"
    /\ mm_pc' = "run"
    /\ UNCHANGED <<mm_m, mm_n, mm_nthreads, mm_checked, mm_ran, mm_writes,
                   mm_underflow, mm_outside>>
    /\ MmOnly

\* matmul/mod.rs:767-787: the closure of one tid. A subtraction below zero
\* panics in a build that checks overflow; otherwise it wraps, and the first
\* index outside dst panics in Idx::check.
mm_closure(tid) ==
    /\ mm_pc = "run"
    /\ tid \notin mm_ran
    /\ mm_ran' = mm_ran \cup {tid}
    /\ LET under == mm_task_idx(tid) > mm_task_count
           idxs == IF under /\ mm_checked THEN {} ELSE mm_indices(tid)
       IN /\ mm_underflow' = (mm_underflow \/ under)
          /\ mm_outside' = (mm_outside \/ \E ij \in idxs : ~mm_in_dst(ij))
          /\ mm_writes' = IF \E ij \in idxs : ~mm_in_dst(ij) THEN mm_writes
                          ELSE [ij \in 1 .. Len(mm_writes) |->
                                   IF (ij - 1) \in idxs
                                   THEN mm_writes[ij] + 1 ELSE mm_writes[ij]]
    /\ UNCHANGED <<mm_pc, mm_m, mm_n, mm_nthreads, mm_checked>>
    /\ MmOnly

\* for_each returns when every closure has: normally, or with the panic of one
mm_for_each_returns ==
    /\ mm_pc = "run"
    /\ mm_ran = 0 .. (mm_nthreads - 1)
    /\ mm_pc' = IF mm_underflow \/ mm_outside THEN "panic" ELSE "done"
    /\ UNCHANGED <<mm_m, mm_n, mm_nthreads, mm_checked, mm_ran, mm_writes,
                   mm_underflow, mm_outside>>
    /\ MmOnly

MmNext ==
    \/ mm_par_iter
    \/ \E tid \in 0 .. (MmMaxThreads - 1) : tid < mm_nthreads /\ mm_closure(tid)
    \/ mm_for_each_returns

SpecMm == MmInit /\ [][MmNext]_vars

\* C19: no task_count - task_idx goes below zero, no index outside dst is
\* formed, no element of dst is written twice, and when the loop has returned
\* every element has been written once.
C19_PartitionIsExact ==
    /\ ~mm_underflow
    /\ ~mm_outside
    /\ \A ij \in 1 .. Len(mm_writes) : mm_writes[ij] <= 1
    /\ mm_pc \in {"done", "panic"} =>
          \A ij \in 1 .. Len(mm_writes) : mm_writes[ij] = 1

\* When no subtraction goes below zero the ranges are disjoint and cover dst.
MmExactWithoutUnderflow ==
    /\ \A ij \in 1 .. Len(mm_writes) : mm_writes[ij] <= 1
    /\ ~mm_underflow =>
          /\ ~mm_outside
          /\ mm_pc = "done" => \A ij \in 1 .. Len(mm_writes) : mm_writes[ij] = 1

-----------------------------------------------------------------------------
(* upgrade_householder_factor: the forks over the blocks of the factor *)

\* Largest factor of a run.
UhfMaxSize == 40
\* householder.rs:136: below this prev_blocksize the whole factor is recomputed
UhfRecomputeBelow == 8
UhfPrevVals == {1, UhfRecomputeBelow}
UhfGrowths == {1, 2, 4}

\* A block of the factor: the rows r0 .. r1 and the columns c0 .. c1 of the
\* factor the first call was given; sib holds the blocks of the sibling tasks
\* of the forks the call runs in.
uhf_block(r0, r1, c0, c1) == [r0 |-> r0, r1 |-> r1, c0 |-> c0, c1 |-> c1]
uhf_call(kind, blk, sib) == [kind |-> kind, blk |-> blk, sib |-> sib]

\* householder.rs:108 and 166: householder_factor.split_at(idx, idx)
uhf_split(blk, idx) ==
    [tl |-> uhf_block(blk.r0, blk.r0 + idx, blk.c0, blk.c0 + idx),
     tr |-> uhf_block(blk.r0, blk.r0 + idx, blk.c0 + idx, blk.c1),
     br |-> uhf_block(blk.r0 + idx, blk.r1, blk.c0 + idx, blk.c1)]

UhfInit ==
    /\ uhf_pc = "start"
    /\ uhf_prev \in UhfPrevVals
    /\ \E g \in UhfGrowths : uhf_blocksize = g * uhf_prev
    /\ \E n \in 0 .. UhfMaxSize :
          uhf_stack = <<uhf_call("upgrade", uhf_block(0, n, 0, n), {})>>
    /\ uhf_last = [kind |-> "none"]
    /\ IdleBut("uhf")

UhfOnly == Others("uhf")

uhf_top == uhf_stack[1]
uhf_rest == SubSeq(uhf_stack, 2, Len(uhf_stack))
uhf_nrows == uhf_top.blk.r1 - uhf_top.blk.r0
\* householder.rs:96
uhf_returns_at_once == uhf_blocksize = uhf_prev \/ uhf_nrows <= uhf_prev
\* householder.rs:102
uhf_block_count == div_ceil(uhf_nrows, uhf_blocksize)

uhf_enter ==
    /\ uhf_pc = "start"
    /\ uhf_pc' = "run"
    /\ UNCHANGED <<uhf_blocksize, uhf_prev, uhf_stack, uhf_last>>
    /\ UhfOnly

\* householder.rs:96-98
uhf_nothing_to_do ==
    /\ uhf_pc = "run"
    /\ uhf_stack # << >>
    /\ uhf_top.kind = "upgrade"
    /\ uhf_returns_at_once
    /\ uhf_stack' = uhf_rest
    /\ uhf_last' = [kind |-> "skip"]
    /\ UNCHANGED <<uhf_pc, uhf_blocksize, uhf_prev>>
    /\ UhfOnly

\* householder.rs:104-134: more than one block, the two halves are forked
uhf_fork_halves ==
    /\ uhf_pc = "run"
    /\ uhf_stack # << >>
    /\ uhf_top.kind = "upgrade"
    /\ ~uhf_returns_at_once
    /\ uhf_block_count > 1
    /\ LET c == uhf_top
           idx == (uhf_block_count \div 2) * uhf_blocksize
           b == uhf_split(c.blk, idx)
       IN /\ uhf_stack' =
                <<uhf_call("upgrade", b.tl, c.sib \cup {b.br}),
                  uhf_call("upgrade", b.br, c.sib \cup {b.tl})>> \o uhf_rest
          /\ uhf_last' = [kind |-> "fork", tasks |-> {b.tl, b.br}]
    /\ UNCHANGED <<uhf_pc, uhf_blocksize, uhf_prev>>
    /\ UhfOnly

\* householder.rs:136-161: the whole factor is written by the two products
uhf_recompute ==
    /\ uhf_pc = "run"
    /\ uhf_stack # << >>
    /\ uhf_top.kind = "upgrade"
    /\ ~uhf_returns_at_once
    /\ uhf_block_count <= 1
    /\ uhf_prev < UhfRecomputeBelow
    /\ uhf_stack' = uhf_rest
    /\ uhf_last' = [uhf_top EXCEPT !.kind = "write"]
    /\ UNCHANGED <<uhf_pc, uhf_blocksize, uhf_prev>>
    /\ UhfOnly

\* householder.rs:162-222: the top-left and bottom-right blocks are upgraded
\* and the top-right block is computed, as three tasks
uhf_fork_three ==
    /\ uhf_pc = "run"
    /\ uhf_stack # << >>
    /\ uhf_top.kind = "upgrade"
    /\ ~uhf_returns_at_once
    /\ uhf_block_count <= 1
    /\ uhf_prev >= UhfRecomputeBelow
    /\ LET c == uhf_top
           prev_block_count == div_ceil(uhf_nrows, uhf_prev)
           idx == (prev_block_count \div 2) * uhf_prev
           b == uhf_split(c.blk, idx)
       IN /\ uhf_stack' =
                <<uhf_call("upgrade", b.tl, c.sib \cup {b.br, b.tr}),
                  uhf_call("upgrade", b.br, c.sib \cup {b.tl, b.tr}),
                  uhf_call("matmul", b.tr, c.sib \cup {b.tl, b.br})>>
                \o uhf_rest
          /\ uhf_last' = [kind |-> "fork", tasks |-> {b.tl, b.br, b.tr}]
    /\ UNCHANGED <<uhf_pc, uhf_blocksize, uhf_prev>>
    /\ UhfOnly

\* householder.rs:196-218: the two products into the top-right block
uhf_matmul ==
    /\ uhf_pc = "run"
    /\ uhf_stack # << >>
    /\ uhf_top.kind = "matmul"
    /\ uhf_stack' = uhf_rest
    /\ uhf_last' = [uhf_top EXCEPT !.kind = "write"]
    /\ UNCHANGED <<uhf_pc, uhf_blocksize, uhf_prev>>
    /\ UhfOnly

uhf_return ==
    /\ uhf_pc = "run"
    /\ uhf_stack = << >>
    /\ uhf_pc' = "done"
    /\ UNCHANGED <<uhf_blocksize, uhf_prev, uhf_stack, uhf_last>>
    /\ UhfOnly

UhfNext ==
    \/ uhf_enter
    \/ uhf_nothing_to_do
    \/ uhf_fork_halves
    \/ uhf_recompute
    \/ uhf_fork_three
    \/ uhf_matmul
    \/ uhf_return

SpecUhf == UhfInit /\ [][UhfNext]_vars

\* The triangular solve or the upgrade of a Householder factor.
SpecTriUhf == (TriInit \/ UhfInit) /\ [][TriNext \/ UhfNext]_vars

\* Two column ranges <<from, to>>, or two blocks, share no element.
cols_disjoint(a, b) == a[2] <= b[1] \/ b[2] <= a[1] \/ a[1] >= a[2] \/ b[1] >= b[2]
blocks_disjoint(a, b) ==
    \/ a.r1 <= b.r0 \/ b.r1 <= a.r0 \/ a.c1 <= b.c0 \/ b.c1 <= a.c0
    \/ a.r0 >= a.r1 \/ a.c0 >= a.c1 \/ b.r0 >= b.r1 \/ b.c0 >= b.c1

\* The right-hand side columns a call of the solve reads and writes lie
\* outside the columns of every sibling task.
tri_call_apart(c) ==
    \A sb \in c.sib : cols_disjoint(<<c.c0, c.c1>>, sb)
\* The block of the factor a call writes (and, upgrading, reads) lies outside
\* the blocks of every sibling task.
uhf_call_apart(c) == \A sb \in c.sib : blocks_disjoint(c.blk, sb)

\* C20: the column split hands out the columns before floor(k / 2) and those
\* from floor(k / 2) on; the forks of upgrade_householder_factor hand out the
\* top-left, bottom-right and top-right blocks of the factor, pairwise
\* disjoint; and everything a task goes on to read or write of the right-hand
\* side, or of the factor, lies outside what its siblings were given.
C20_SiblingsAreDisjoint ==
    /\ tri_last.kind = "fork" =>
          /\ tri_last.left = <<tri_last.c0,
                               tri_last.c0 + (tri_last.c1 - tri_last.c0) \div 2>>
          /\ tri_last.right = <<tri_last.c0 + (tri_last.c1 - tri_last.c0) \div 2,
                                tri_last.c1>>
    /\ \A i \in 1 .. Len(tri_stack) : tri_call_apart(tri_stack[i])
    /\ tri_last.kind \in {"base", "matmul"} => tri_call_apart(tri_last)
    /\ uhf_last.kind = "fork" =>
          \A a, b \in uhf_last.tasks : a # b => blocks_disjoint(a, b)
    /\ \A i \in 1 .. Len(uhf_stack) : uhf_call_apart(uhf_stack[i])
    /\ uhf_last.kind = "write" => uhf_call_apart(uhf_last)

\* A base-case solve inside two nested column splits, or a top-right product
\* next to its two sibling blocks.
C20_Witness ==
    \/ /\ tri_last.kind = "base"
       /\ Cardinality(tri_last.sib) >= 2
       /\ tri_last.c1 > tri_last.c0
    \/ /\ uhf_last.kind = "write"
       /\ Cardinality(uhf_last.sib) >= 2
       /\ uhf_last.blk.r1 > uhf_last.blk.r0
       /\ uhf_last.blk.c1 > uhf_last.blk.c0

-----------------------------------------------------------------------------
(* The upper triangular solves, through the lower triangular one *)

\* Largest triangular matrix of a run; the right-hand side has one column.
UtMaxDim == 3
\* Entries are complex numbers with integer parts. The diagonal holds numbers
\* of modulus 1, whose inverses are exact; the entries below the diagonal of
\* the stored matrix are not part of the system and hold UtBelow.
UtDiagVals == { Cplx(1, 0), Cplx(0, 1) }
UtOffVals == { Cplx(0, 0), Cplx(1, 1) }
UtRhsVals == { Cplx(1, 0), Cplx(0, 1) }
UtBelow == Cplx(1, 2)

c_neg(x) == Cplx(-x.re, -x.im)
\* 1 / x = conj(x) / |x|^2, for x whose inverse has integer parts
c_inv(x) ==
    LET nn == x.re * x.re + x.im * x.im
    IN Cplx(x.re \div nn, (-x.im) \div nn)

UtSquare(n) == (1 .. n) \X (1 .. n)

reverse_rows_kept(x, n) == x

\* mat/matmut.rs:889-907: the rows in reversed order
reverse_rows(x, n) == [i \in 1 .. n |-> x[n + 1 - i]]
\* mat/matmut.rs:966-983: the rows and the columns in reversed order
reverse_rows_and_cols(t, n) ==
    [ij \in UtSquare(n) |-> t[<<n + 1 - ij[1], n + 1 - ij[2]>>]]

\* solve.rs:8-15: identity or conj, by conj_lhs
ut_maybe_conj(cj, x) == IF cj THEN c_conj(x) ELSE x

\* The sum of -(coef(i, j)) * y[j] over the columns j = 1 .. upto of row i,
\* added to acc in the order of the columns.
RECURSIVE ut_eliminate(_, _, _, _, _, _, _)
ut_eliminate(l, y, i, upto, cj, scale, acc) ==
    IF upto = 0 THEN acc
    ELSE c_add(ut_eliminate(l, y, i, upto - 1, cj, scale, acc),
               c_mul(c_neg(c_mul(ut_maybe_conj(cj, l[<<i, upto>>]), scale)),
                     y[upto]))

\* solve.rs:18-99 and 102-199: the base cases for n <= 4. Row i of the unit
\* case adds -l[i, j] * y[j] to x[i]; row i of the other case takes
\* x[i] * (1 / l[i, i]) and adds -(l[i, j] * (1 / l[i, i])) * y[j]. The rows
\* before row i are done in y.
RECURSIVE ut_base_case_from(_, _, _, _, _, _)
ut_base_case_from(l, y, i, n, unit, cj) ==
    IF i > n THEN y
    ELSE LET inv == IF unit THEN Cplx(1, 0)
                    ELSE c_inv(ut_maybe_conj(cj, l[<<i, i>>]))
             yi == ut_eliminate(l, y, i, i - 1, cj, inv, c_mul(y[i], inv))
         IN ut_base_case_from(l, [y EXCEPT ![i] = yi], i + 1, n, unit, cj)

UtInit ==
    /\ ut_pc = "start"
    /\ ut_n \in 0 .. UtMaxDim
    /\ ut_unit \in BOOLEAN
    /\ ut_conj \in BOOLEAN
    /\ \E d \in [1 .. ut_n -> UtDiagVals],
          o \in [{ij \in UtSquare(ut_n) : ij[1] < ij[2]} -> UtOffVals] :
          ut_T = [ij \in UtSquare(ut_n) |->
                     IF ij[1] = ij[2] THEN d[ij[1]]
                     ELSE IF ij[1] < ij[2] THEN o[ij]
                     ELSE UtBelow]
    /\ ut_B \in [1 .. ut_n -> UtRhsVals]
    /\ ut_X = ut_B
    /\ ut_L = << >>
    /\ ut_xv = << >>
    /\ IdleBut("ut")

UtOnly == Others("ut")

\* solve.rs:649-661 and 743-755: the lower solve is called with
\* triu.reverse_rows_and_cols() and rhs.reverse_rows()
solve_upper_triangular_in_place_unchecked ==
    /\ ut_pc = "start"
    /\ ut_L' = reverse_rows_and_cols(ut_T, ut_n)
    /\ ut_xv' = reverse_rows(ut_X, ut_n)
    /\ ut_pc' = "lower"
    /\ UNCHANGED <<ut_n, ut_unit, ut_conj, ut_T, ut_B, ut_X>>
    /\ UtOnly

\* solve.rs:590-604 and 695-709: n <= recursion_threshold, the base case; what
\* it writes to the view of rhs lands in rhs, at the rows the view stands for.
solve_lower_triangular_in_place_base_case ==
    /\ ut_pc = "lower"
    /\ ut_n <= recursion_threshold
    /\ ut_xv' = ut_base_case_from(ut_L, ut_xv, 1, ut_n, ut_unit, ut_conj)
    /\ ut_X' = reverse_rows(ut_xv', ut_n)
    /\ ut_pc' = "return"
    /\ UNCHANGED <<ut_n, ut_unit, ut_conj, ut_T, ut_B, ut_L>>
    /\ UtOnly

ut_return ==
    /\ ut_pc = "return"
    /\ ut_pc' = "done"
    /\ UNCHANGED <<ut_n, ut_unit, ut_conj, ut_T, ut_B, ut_X, ut_L, ut_xv>>
    /\ UtOnly

UtNext ==
    \/ solve_upper_triangular_in_place_unchecked
    \/ solve_lower_triangular_in_place_base_case
    \/ ut_return

SpecUt == UtInit /\ [][UtNext]_vars

\* Entry <<i, j>> of the upper triangular system: conj_lhs applied to the
\* stored entry, 1 on the diagonal of the unit variant, 0 below the diagonal.
ut_system(i, j) ==
    IF i > j THEN c_zero
    ELSE IF i = j /\ ut_unit THEN Cplx(1, 0)
    ELSE ut_maybe_conj(ut_conj, ut_T[<<i, j>>])

\* Row i of the system times x, over the columns 1 .. upto.
RECURSIVE ut_row_times(_, _, _)
ut_row_times(x, i, upto) ==
    IF upto = 0 THEN c_zero
    ELSE c_add(ut_row_times(x, i, upto - 1), c_mul(ut_system(i, upto), x[upto]))

\* C23: after the call, rhs read in its own row order solves the upper
\* triangular system: the system times rhs is the right-hand side passed in,
\* for the unit and the non-unit variant and for either conjugation flag.
C23_UpperBySolvingReversedLower ==
    ut_pc = "done" =>
        \A i \in 1 .. ut_n : ut_row_times(ut_X, i, ut_n) = ut_B[i]

\* A conjugated, non-unit system of three rows with nothing zero above the
\* diagonal and a diagonal that is not real.
C23_Witness ==
    /\ ut_pc = "done" /\ ut_n = 3 /\ ut_conj /\ ~ut_unit
    /\ \A ij \in UtSquare(ut_n) : ij[1] < ij[2] => ut_T[ij] # c_zero
    /\ \E i \in 1 .. ut_n : ut_T[<<i, i>>].im # 0
    /\ ut_X # ut_B
    /\ \A i \in 1 .. ut_n : ut_row_times(ut_X, i, ut_n) = ut_B[i]

-----------------------------------------------------------------------------
(* compute_evd_real: the eigenvectors of the real Schur form, by back
   substitution *)

\* Largest matrix of a run.
SchurMaxDim == 7

\* The subdiagonals of the quasi-triangular matrices of n rows: zero (0) or not
\* (1), no two entries next to each other nonzero.
SchurSubdiags(n) ==
    { sub \in [1 .. Max(n - 1, 0) -> {0, 1}] :
         \A i \in 1 .. (n - 2) : sub[i] = 0 \/ sub[i + 1] = 0 }

schur_at_first_never(i) == FALSE

\* lib.rs:462, 481 and 581: `i == 0 ||`, which keeps h.read(i, i - 1) from
\* being evaluated
schur_at_first(i) == i = 0

SchurInit ==
    /\ schur_pc = "start"
    /\ schur_n \in 1 .. SchurMaxDim
    /\ schur_sub \in SchurSubdiags(schur_n)
    /\ schur_k = 0
    /\ schur_i = 0
    /\ schur_cols = << >>
    /\ schur_low = 0
    /\ schur_read0 = FALSE
    /\ IdleBut("schur")

SchurOnly == Others("schur")

\* lib.rs:455: let mut k = n
schur_begin ==
    /\ schur_pc = "start"
    /\ schur_k' = schur_n
    /\ schur_low' = schur_n
    /\ schur_pc' = "outer"
    /\ UNCHANGED <<schur_n, schur_sub, schur_i, schur_cols, schur_read0>>
    /\ SchurOnly

\* lib.rs:456-469 and 537-562: one pass of the outer loop up to its inner
\* loop: k -= 1, then the column is a real eigenvalue's or, with column k - 1,
\* a complex pair's.
schur_outer ==
    /\ schur_pc = "outer"
    /\ schur_k # 0
    /\ LET k == schur_k - 1 IN
       IF ~schur_at_first(k) /\ k = 0
       THEN /\ schur_read0' = TRUE
            /\ schur_pc' = "panic"
            /\ schur_k' = k
            /\ schur_low' = Min(schur_low, k - 1)
            /\ UNCHANGED <<schur_i, schur_cols>>
       ELSE IF schur_at_first(k) \/ schur_sub[k] = 0
       THEN /\ schur_cols' = Append(schur_cols, <<k, "alone">>)
            /\ schur_k' = k
            /\ schur_i' = k
            /\ schur_low' = Min(schur_low, k)
            /\ schur_pc' = "real"
            /\ UNCHANGED schur_read0
       ELSE /\ schur_cols' = schur_cols \o <<(<<k, "upper">>), (<<k - 1, "lower">>)>>
            /\ schur_k' = k
            /\ schur_i' = k - 1
            /\ schur_low' = Min(schur_low, k - 1)
            /\ schur_pc' = "pair"
            /\ UNCHANGED schur_read0
    /\ UNCHANGED <<schur_n, schur_sub>>
    /\ SchurOnly

\* lib.rs:475-534 and 574-659: one pass of an inner loop: i -= 1, then row i
\* is a 1x1 block or, with row i - 1, a 2x2 block, and then i -= 1 again.
schur_inner ==
    /\ schur_pc \in {"real", "pair"}
    /\ schur_i # 0
    /\ LET i == schur_i - 1 IN
       IF ~schur_at_first(i) /\ i = 0
       THEN /\ schur_read0' = TRUE
            /\ schur_pc' = "panic"
            /\ schur_i' = i
            /\ schur_low' = Min(schur_low, i - 1)
       ELSE IF schur_at_first(i) \/ schur_sub[i] = 0
       THEN /\ schur_i' = i
            /\ schur_low' = Min(schur_low, i)
            /\ UNCHANGED <<schur_pc, schur_read0>>
       ELSE /\ schur_i' = i - 1
            /\ schur_low' = Min(schur_low, i - 1)
            /\ UNCHANGED <<schur_pc, schur_read0>>
    /\ UNCHANGED <<schur_n, schur_sub, schur_k, schur_cols>>
    /\ SchurOnly

\* lib.rs:477-479 and 577-579: the inner loop ends; lib.rs:661: the pair's
\* k -= 1
schur_inner_end ==
    /\ schur_pc \in {"real", "pair"}
    /\ schur_i = 0
    /\ schur_k' = IF schur_pc = "pair" THEN schur_k - 1 ELSE schur_k
    /\ schur_low' = Min(schur_low, schur_k')
    /\ schur_pc' = "outer"
    /\ UNCHANGED <<schur_n, schur_sub, schur_i, schur_cols, schur_read0>>
    /\ SchurOnly

\* lib.rs:457-459
schur_outer_end ==
    /\ schur_pc = "outer"
    /\ schur_k = 0
    /\ schur_pc' = "done"
    /\ UNCHANGED <<schur_n, schur_sub, schur_k, schur_i, schur_cols, schur_low,
                   schur_read0>>
    /\ SchurOnly

SchurNext ==
    \/ schur_begin
    \/ schur_outer
    \/ schur_inner
    \/ schur_inner_end
    \/ schur_outer_end

SpecSchur == SchurInit /\ [][SchurNext]_vars

\* How often column c was visited.
schur_visits(c) ==
    Cardinality({j \in 1 .. Len(schur_cols) : schur_cols[j][1] = c})

\* C27: the outer loop visits every column once, alone when k = 0 or
\* h[k, k - 1] = 0 and else as the upper member of the pair (k - 1, k); no
\* index below 0 is formed and h[i, i - 1] is never read with i = 0.
C27_ColumnsOnceNoUnderflow ==
    /\ schur_low >= 0 /\ schur_k >= 0 /\ schur_i >= 0
    /\ ~schur_read0
    /\ schur_pc # "panic"
    /\ \A j \in 1 .. Len(schur_cols) :
          LET k == schur_cols[j][1]
              role == schur_cols[j][2]
          IN /\ k \in 0 .. (schur_n - 1)
             /\ role = "alone" => (k = 0 \/ schur_sub[k] = 0)
             /\ role = "upper" =>
                   /\ k >= 1 /\ schur_sub[k] # 0
                   /\ j < Len(schur_cols)
                   /\ schur_cols[j + 1] = <<k - 1, "lower">>
             /\ role = "lower" => (j > 1 /\ schur_cols[j - 1] = <<k + 1, "upper">>)
    /\ \A c \in 0 .. (schur_n - 1) : schur_visits(c) <= 1
    /\ schur_pc = "done" => \A c \in 0 .. (schur_n - 1) : schur_visits(c) = 1

\* A run over a matrix whose first two columns are a pair, with a real
\* eigenvalue and another pair after them.
C27_Witness ==
    /\ schur_pc = "done" /\ schur_n >= 5
    /\ schur_sub[1] # 0
    /\ \E j \in 1 .. Len(schur_cols) :
          schur_cols[j][2] = "alone" /\ schur_cols[j][1] > 1
    /\ \E j \in 1 .. Len(schur_cols) :
          schur_cols[j][2] = "upper" /\ schur_cols[j][1] > 1
    /\ \A c \in 0 .. (schur_n - 1) : schur_visits(c) = 1

-----------------------------------------------------------------------------
(* The eigendecompositions called with matrices down to the empty one *)

\* Largest matrix of a run.
EntryMaxDim == 8
EntryFns == {"req", "hermitian", "general"}

\* a - b on usize: the difference, or, below zero, a panic in a build that
\* checks for overflow and the difference modulo 2^64 in one that does not
\* (2^64 - 1, written -1, for 0 - 1).
usize_sub(a, b, checks) ==
    IF a >= b THEN [panic |-> FALSE, wrapped |-> FALSE, val |-> a - b]
    ELSE IF checks THEN [panic |-> TRUE, wrapped |-> TRUE, val |-> 0]
    ELSE [panic |-> FALSE, wrapped |-> TRUE, val |-> a - b]

EntryInit ==
    /\ entry_pc = "start"
    /\ entry_fn \in EntryFns
    /\ entry_n \in 0 .. EntryMaxDim
    /\ entry_checks \in BOOLEAN
    /\ entry_nm1 = 0
    /\ entry_wrapped = FALSE
    /\ IdleBut("entry")

EntryOnly == Others("entry")

\* What evaluating n - 1 does to the state.
entry_evaluate_n_minus_1 ==
    LET d == usize_sub(entry_n, 1, entry_checks) IN
    /\ entry_nm1' = d.val
    /\ entry_wrapped' = d.wrapped
    /\ entry_pc' = IF d.panic THEN "panic" ELSE "evaluated"

\* lib.rs:65-86: compute_hermitian_evd_req up to its first n - 1, in
\* temp_mat_req::<E>(householder_blocksize, n - 1)
entry_hermitian_evd_req ==
    /\ entry_pc = "start"
    /\ entry_fn = "req"
    /\ entry_evaluate_n_minus_1
    /\ UNCHANGED <<entry_fn, entry_n, entry_checks>>
    /\ EntryOnly

\* lib.rs:158-170: compute_hermitian_evd_custom_epsilon up to its first
\* n - 1, in recommended_blocksize::<E>(n - 1, n - 1)
entry_hermitian_evd ==
    /\ entry_pc = "start"
    /\ entry_fn = "hermitian"
    /\ entry_evaluate_n_minus_1
    /\ UNCHANGED <<entry_fn, entry_n, entry_checks>>
    /\ EntryOnly

\* lib.rs:378-380: compute_evd_real_custom_epsilon returns when n == 0
entry_evd_real_empty ==
    /\ entry_pc = "start"
    /\ entry_fn = "general"
    /\ entry_n = 0
    /\ entry_pc' = "returned"
    /\ UNCHANGED <<entry_fn, entry_n, entry_checks, entry_nm1, entry_wrapped>>
    /\ EntryOnly

\* lib.rs:382: recommended_blocksize::<E>(n - 1, n - 1)
entry_evd_real ==
    /\ entry_pc = "start"
    /\ entry_fn = "general"
    /\ entry_n # 0
    /\ entry_evaluate_n_minus_1
    /\ UNCHANGED <<entry_fn, entry_n, entry_checks>>
    /\ EntryOnly

\* The rest of the function called.
entry_rest ==
    /\ entry_pc = "evaluated"
    /\ entry_pc' = "done"
    /\ UNCHANGED <<entry_fn, entry_n, entry_checks, entry_nm1, entry_wrapped>>
    /\ EntryOnly

EntryNext ==
    \/ entry_hermitian_evd_req
    \/ entry_hermitian_evd
    \/ entry_evd_real_empty
    \/ entry_evd_real
    \/ entry_rest

SpecEntry == EntryInit /\ [][EntryNext]_vars

\* C28: called with n = 0, compute_hermitian_evd_req and
\* compute_hermitian_evd evaluate no n - 1 on the unsigned zero: no such value
\* wraps around and none panics.
C28_EmptyMatrixNoUnderflow ==
    entry_fn \in {"req", "hermitian"} =>
        /\ ~entry_wrapped
        /\ entry_pc # "panic"
        /\ entry_nm1 >= 0

\* What holds instead: the general eigendecomposition guards n - 1 with its
\* test of n == 0, and the hermitian functions are sound from n = 1 on.
EntryGuardedOrNonEmpty ==
    (entry_fn = "general" \/ entry_n >= 1) =>
        /\ ~entry_wrapped
        /\ entry_pc # "panic"
        /\ entry_nm1 >= 0

=============================================================================
